---------------------------- MODULE Spec2Model ----------------------------
(***************************************************************************)
(* A model of hw-gauge: of the firmware, the packet framer (io.rs), the    *)
(* decode / animation hand-off, the display task and the no-data watchdog  *)
(* (main.rs) and the animation step (perf.rs); of the host daemon, the     *)
(* wire format (lib.rs, message.rs) and the Averager (avg.rs).             *)
(*                                                                         *)
(* Twelve specifications share the variables:                                *)
(*   SpecFramer    Serial::read_packet driven by a host that sends frames  *)
(*                 and a link that delivers them in arbitrary chunks, the  *)
(*                 caller passing output buffers of several lengths;       *)
(*   SpecLink      the same with the caller of handle_usb_event, whose     *)
(*                 output buffer has BUF_BYTES bytes;                      *)
(*   SpecWatchdog  the clock, handle_packet, handle_perf and the           *)
(*                 no_data_timeout loop;                                   *)
(*   SpecAnim      handle_packet / handle_perf / update_state over a       *)
(*                 bounded set of snapshots;                               *)
(*   SpecQueue     the same with show_perf draining the frame queue;       *)
(*   SpecE2E       the host's encoded frames through usb_event,            *)
(*                 handle_packet, handle_perf and show_perf;               *)
(*   SpecAvg       one Averager and the samples added to it;               *)
(*   SpecTick      show_perf on its own tick of FRAME_MS and a host that   *)
(*                 sends a snapshot every SEND_PERIOD;                     *)
(*   SpecSched     the six tasks step by step under RTIC's priorities and  *)
(*                 resource ceilings, with interrupts and timer wake-ups   *)
(*                 at any point;                                           *)
(*   SpecSilence   the watchdog, handle_perf and show_perf with a host     *)
(*                 that falls silent for longer than the thresholds;       *)
(*   SpecService   the daemon's service thread, detectsend_loop under the  *)
(*                 retry loop, and stop(), under weak fairness of the      *)
(*                 thread;                                                 *)
(*   SpecMono      MonoTimer::now and on_interrupt with the 16-bit counter *)
(*                 stepping between their register reads.                  *)
(* Time is counted in microseconds, the tick of the RP2040 timer           *)
(* monotonic.  Loads are f32 in the source: the model counts them in units *)
(* of 2^-29 and rounds every result to the 24-bit significand of f32, so   *)
(* that the arithmetic is that of the source for loads in [0, 1] that are  *)
(* multiples of 2^-29.                                                     *)
(***************************************************************************)
EXTENDS Integers, Sequences, FiniteSets, TLC

VARIABLES
    \* ---- io.rs: Serial and the link --------------------------------------
    wire,       \* bytes the host has sent that port.read has not returned yet
    buf,        \* Serial.buf: the cells [0, buf_next) that hold unread bytes (the
                \* cells from buf_next on are overwritten before they are read)
    buf_next,   \* Serial.buf_next
    call,       \* the last read_packet call: its arguments, the link's
                \* outcome (kind), its result and the
                \* caller's packet_buf afterwards
    sent,       \* history: the frames the host has sent, in order
    got,        \* history: the frames read_packet has returned, in order
    consumed,   \* history: terminators removed from Serial.buf so far
    ovf,        \* history: stream indices of the frames reported Overflow
    \* ---- main.rs: shared resources and task state -------------------------
    now,        \* Mono::now(), microseconds
    msg_time,   \* Shared.msg_time
    prev_perf,  \* Shared.prev_perf (Option<PerfData>)
    frames,     \* Shared.frames (FramesDeque)
    display,    \* what the display shows
    hpkt,       \* handle_packet's spawn slot: None or the pending buf
    hperf,      \* handle_perf's spawn slot: None or the pending PerfData
    halted,     \* the core has faulted
    wd,         \* no_data_timeout: its position, local state, sampled instant
                \* and, while it holds the msg_time lock, the elapsed time
    last_rx,    \* history: when the last ShowPerf was decoded
    anim,       \* history: the last update_state call, its input and result
    poll,       \* history: the last completed watchdog poll and the display
                \* side effects of the current run of polls
    shown,      \* history: the frame show_perf rendered last
    rx,         \* history: since handle_perf last ran, what the last frame
                \* that was not a ClearScreen decoded to, ShowPerf or an
                \* error, and whether handle_perf::spawn accepted its snapshot
    ho,         \* history of the hand-off to handle_packet, by the frames'
                \* index in got: those whose spawn failed, those decoded
    play,       \* history of the playback of the last update of the host
                \* that sends on the clock: when handle_perf
                \* ran, how many of its frames show_perf has rendered, when
                \* it rendered the last of them, and when the watchdog drew
                \* or cleared the display since (warned, -1 if it has not)
    \* ---- main.rs: the display tick and the host's cadence ------------------
    sp,         \* show_perf: `instant`, when its delay_until is over
    host,       \* the host: when it sends its next snapshot
    \* ---- main.rs: the tasks under the scheduler ----------------------------
    pc,         \* each task's position in its code
    stack,      \* the tasks that have started and not yet returned or reached
                \* an await, in the order they preempted each other
    ready,      \* the tasks that are pending: spawned, woken by the timer or,
                \* for usb_event, with their interrupt raised
    hp,         \* handle_perf's locals: prev_value, the frames and the state
                \* update_state has calculated, how many frames it has pushed;
                \* and, history, the updates completed
    irqs,       \* history: the USB interrupts raised so far
    \* ---- daemon avg.rs: one Averager --------------------------------------
    averager,   \* the Averager: value, sample_count, max_samples
    samples,    \* history: the samples added since the Averager was created
    old_average, \* history: what average() returned before the last add_sample
    \* ---- daemon lib.rs: the service loop ------------------------------------
    svc,        \* the service thread: where it is (pc) and CONTEXT.run_mode
    \* ---- mono.rs: MonoTimer ------------------------------------------------
    timer,      \* TIM2's counter cnt and overflow flag sr.uif, MonoTimer.ovf,
                \* and, history, the steps the counter has made
    nowcall     \* the call of now() under way: where it is (pc) and the cnt
                \* it has read; and, history, what the last two calls
                \* returned and whether the counter has overflowed between
                \* the two reads of a call

framerVars == <<wire, buf, buf_next, call, sent, got, consumed, ovf>>
taskVars   == <<now, msg_time, prev_perf, frames, display, hpkt, hperf, halted,
               wd, last_rx, anim, poll, shown, rx, ho, play>>
daemonVars == <<averager, samples, old_average, svc>>
tickVars   == <<sp, host>>
schedVars  == <<pc, stack, ready, hp, irqs>>
monoVars   == <<timer, nowcall>>
vars       == <<framerVars, taskVars, daemonVars, tickVars, schedVars, monoVars>>

None == [tag |-> "None"]
Some(v) == [tag |-> "Some", val |-> v]

\* Minimum and maximum of two integers.
Min(a, b) == IF a < b THEN a ELSE b
Max(a, b) == IF a > b THEN a ELSE b

(***************************************************************************)
(* io.rs: the packet framer                                                *)
(***************************************************************************)

\* pub const BUF_BYTES: usize = 64;
BUF_BYTES == 64
\* const TERMINATOR: u8 = 0;
TERMINATOR == 0

\* ---- bounds of the framer's environment ---------------------------------
\* Frames the host sends in one run.
MaxFrames == 2
\* Payload lengths (terminator excluded) the host chooses from: 63 is the
\* longest frame that fits the receive buffer, 64 the shortest that does not;
\* 1, 2 and 3 give frames that fit, just miss and exceed the short output
\* buffer of OutLens.
PayloadLens == {1, 2, 3, 63, 64}
\* Distinct non-terminator byte values used in payloads.
PayloadBytes == 3
\* Output buffer lengths a caller passes to read_packet; handle_usb_event
\* passes BUF_BYTES.
OutLens == {2, BUF_BYTES}
\* Byte counts one port.read returns, when that many bytes are pending and
\* fit (else all that are pending and fit).
ChunkLens == {1, 2, BUF_BYTES}

\* The k-th frame the host sends: a zero-free payload of n bytes, whose
\* bytes depend on k and on the position, and the terminator.
Frame(k, n) == [j \in 1..(n + 1) |->
                  IF j = n + 1 THEN TERMINATOR ELSE 1 + ((k + j) % PayloadBytes)]

\* `for i in i0..self.buf_next { if self.buf[i] == TERMINATOR ...`: the
\* first index i (0-based, as in the source) in [i0, next) with
\* b[i] = TERMINATOR, or -1 when the loop runs out.
RECURSIVE Scan(_, _, _)
Scan(b, i0, next) ==
    IF i0 >= next THEN -1
    ELSE IF b[i0 + 1] = TERMINATOR THEN i0
    ELSE Scan(b, i0 + 1, next)

\* FirstTerminator that finds the last terminator of the buffer.
LastTerminator(b, next) ==
    IF \E i \in 0..(next - 1) : b[i + 1] = TERMINATOR
    THEN CHOOSE i \in 0..(next - 1) :
             b[i + 1] = TERMINATOR /\ \A j \in (i + 1)..(next - 1) : b[j + 1] # TERMINATOR
    ELSE -1

FirstTerminator(b, next) == Scan(b, 0, next)

\* Number of terminators in b[0 .. next).
Terminators(b, next) == Cardinality({i \in 1..next : b[i] = TERMINATOR})

\* self.buf.copy_within(start..next, 0): the cells [start, next) move to
\* the head of the buffer.
CopyWithin(b, start, next) == [j \in 1..(next - start) |-> b[start + j]]

\* port.read(&mut buf[*buf_next..]) returning Ok(count): the first count
\* bytes of the wire land at buf[buf_next ..].
PortRead(b, next, w, count) ==
    [j \in 1..(next + count) |-> IF j > next THEN w[j - next] ELSE b[j]]

\* Outcomes of Serial::poll for the link's state: usb_dev.poll() false
\* ("idle"), port.read -> Ok(count) with count at most the room left in buf
\* and the bytes pending, Err(WouldBlock), or any other UsbError.
PollOutcomes(w, next) ==
    {[kind |-> "idle", count |-> 0], [kind |-> "wouldblock", count |-> 0],
     [kind |-> "error", count |-> 0]}
    \cup {[kind |-> "ok", count |-> Min(c, Min(Len(w), BUF_BYTES - next))] :
             c \in ChunkLens \cup {0}}

\* PollResult that swallows the link's errors.
PollResultSwallowed(kind) == "ok"

\* The arms of Serial::poll that read nothing: usb_dev.poll() false and
\* Err(UsbError::WouldBlock) give Ok(0), `Err(error) => Err(error)`.
PollResult(kind) == IF kind = "error" THEN "err" ELSE "ok"

\* Serial::poll: the buffer and cursor after it, and its result.
Poll(b, next, w, p) ==
    IF p.kind = "ok"
    THEN [buf |-> PortRead(b, next, w, p.count), buf_next |-> next + p.count,
          wire |-> SubSeq(w, p.count + 1, Len(w)),
          res |-> "ok", count |-> p.count]
    ELSE [buf |-> b, buf_next |-> next, wire |-> w,
          res |-> PollResult(p.kind), count |-> 0]

\* `if i > packet_buf.len()`: the frame ending at offset i is refused.
TooLong(i, outLen) == i > outLen

\* TrailingStart that does not skip the terminator.
TrailingStartAtTerminator(i) == i

\* `let start = i + 1`: where the bytes that follow the frame begin.
TrailingStart(i) == i + 1

\* NoNewBytes that never takes the early return.
NoNewBytesNever(count) == FALSE

\* `if self.poll()? == 0 { return Ok(0); }`: no new serial data to process.
NoNewBytes(count) == count = 0

\* Serial::read_packet on a polled Serial (q = Poll(...)) and a packet_buf
\* of outLen bytes.  res is "ok" (n = the returned length), "overflow"
\* (Err(BufferOverflow)), "err" (the link's error) or "panic"
\* (packet_buf[..i + 1] is out of range: the slice index aborts before any
\* byte is copied).  out is packet_buf[..n], the bytes the call wrote; the
\* cells after them stay as the caller passed them.
ReadPacket(q, outLen) ==
    LET i == FirstTerminator(q.buf, q.buf_next)
        base == [buf |-> q.buf, buf_next |-> q.buf_next, out |-> << >>,
                 i |-> -1, n |-> 0, res |-> "ok"]
    IN  IF q.res = "err" THEN [base EXCEPT !.res = "err"]
        ELSE IF NoNewBytes(q.count) THEN base
        ELSE IF i = -1 THEN base
        ELSE IF TooLong(i, outLen) THEN [base EXCEPT !.res = "overflow", !.i = i]
        ELSE IF i + 1 > outLen THEN [base EXCEPT !.res = "panic", !.i = i]
        ELSE [buf |-> IF i + 1 = q.buf_next THEN << >>
                      ELSE CopyWithin(q.buf, TrailingStart(i), q.buf_next),
              buf_next |-> IF i + 1 = q.buf_next THEN 0
                           ELSE q.buf_next - TrailingStart(i),
              out |-> [j \in 1..(i + 1) |-> q.buf[j]],
              i |-> i, n |-> i + 1, res |-> "ok"]

NoCall == [outLen |-> 0, kind |-> "none", polled |-> 0, pre |-> << >>,
           cursor |-> 0, i |-> -1, n |-> 0, res |-> "none", out |-> << >>]

FramerInit ==
    /\ wire = << >>
    /\ buf = << >>
    /\ buf_next = 0
    /\ call = NoCall
    /\ sent = << >>
    /\ got = << >>
    /\ consumed = 0
    /\ ovf = {}

\* The host writes one more frame to the link.
HostSend(n) ==
    /\ Len(sent) < MaxFrames
    /\ call.res # "panic"
    /\ LET f == Frame(Len(sent) + 1, n)
       IN  /\ wire' = wire \o f
           /\ sent' = Append(sent, f)
    /\ UNCHANGED <<buf, buf_next, call, got, consumed, ovf>>
    /\ UNCHANGED taskVars
    /\ UNCHANGED daemonVars
    /\ UNCHANGED tickVars
    /\ UNCHANGED schedVars
    /\ UNCHANGED monoVars

\* One call of serial.read_packet(&mut packet_buf[..outLen]) with link
\* outcome p: what it does to the Serial and the link.
SerialReadPacket(outLen, p) ==
    /\ call.res # "panic"
    /\ \E q \in {Poll(buf, buf_next, wire, p)} : \E r \in {ReadPacket(q, outLen)} :
           /\ wire' = q.wire
           /\ buf' = r.buf
           /\ buf_next' = r.buf_next
           /\ call' = [outLen |-> outLen, kind |-> p.kind, polled |-> q.count,
                       pre |-> q.buf, cursor |-> q.buf_next, i |-> r.i,
                       n |-> r.n, res |-> r.res, out |-> r.out]
           /\ got' = IF r.res = "ok" /\ r.n > 0 THEN Append(got, r.out) ELSE got
           /\ consumed' = IF r.res = "ok" /\ r.n > 0 THEN consumed + 1 ELSE consumed
           /\ ovf' = IF r.res = "overflow" THEN ovf \cup {consumed + 1} ELSE ovf
    /\ UNCHANGED sent

\* A caller that does nothing but call read_packet.
read_packet(outLen, p) ==
    /\ SerialReadPacket(outLen, p)
    /\ UNCHANGED taskVars
    /\ UNCHANGED daemonVars
    /\ UNCHANGED tickVars
    /\ UNCHANGED schedVars
    /\ UNCHANGED monoVars

(***************************************************************************)
(* perf.rs: the animation step                                             *)
(***************************************************************************)

\* Loads are f32 fractions of 1.0 in the source; the model counts them in
\* units of 1/LoadScale = 2^-29, the spacing of f32 in [2^-6, 2^-5), where
\* FALL_FRAC_PER_FRAME lies.
LoadScale == 536870912

\* The spacing of f32 (24-bit significand) at magnitude a, in model units,
\* found by doubling u: 1 below 2^24 units, 2 below 2^25, ...
RECURSIVE UlpFrom(_, _)
UlpFrom(a, u) == IF a < 16777216 * u THEN u ELSE UlpFrom(a, 2 * u)

\* x rounded to the nearest f32, ties to the even significand (the IEEE 754
\* default rounding of every f32 operation).
RoundF32(x) ==
    LET a == IF x < 0 THEN -x ELSE x
        u == UlpFrom(a, 1)
        q == a \div u
        r == a % u
        m == IF 2 * r < u THEN q
             ELSE IF 2 * r > u THEN q + 1
             ELSE IF q % 2 = 0 THEN q ELSE q + 1
    IN  IF x < 0 THEN -(m * u) ELSE m * u

\* f32 subtraction a - b.
SubF32(a, b) == RoundF32(a - b)

\* f32 division of a by the small integer n, for quotients of at least
\* 2^23 units (where the spacing of f32 is a whole number of units).
DivF32(a, n) ==
    LET q == a \div n
        r == a % n
        m == IF 2 * r < n THEN q
             ELSE IF 2 * r > n THEN q + 1
             ELSE IF q % 2 = 0 THEN q ELSE q + 1
    IN  RoundF32(m)

\* const FRAMES_PER_SECOND: u32 = 15;
FRAMES_PER_SECOND == 15
\* const FALL_PCT_PER_SECOND: f32 = 25.0;
FALL_PCT_PER_SECOND == 25
\* FRAME_MS for one frame fewer in the second.
FRAME_MS_14 == 1000 \div (FRAMES_PER_SECOND - 1)

\* const FRAME_MS: u32 = 1000 / FRAMES_PER_SECOND;
FRAME_MS == 1000 \div FRAMES_PER_SECOND
\* const FALL_FRAC_PER_FRAME: f32 = FALL_PCT_PER_SECOND / 100.0 / FRAMES_PER_SECOND as f32;
\* FALL_PCT_PER_SECOND / 100.0 is 1/4, exact in f32; the division by 15.0
\* rounds.
FALL_FRAC_PER_FRAME ==
    DivF32(LoadScale \div (100 \div FALL_PCT_PER_SECOND), FRAMES_PER_SECOND)

\* shared::message::PerfData
PerfData(load, avg, peak, mem, day) ==
    [all_cores_load |-> load, all_cores_avg |-> avg, peak_core_load |-> peak,
     memory_load |-> mem, daytime |-> day]

\* update_cpu_load that eases in to higher loads as it does to lower ones.
update_cpu_load_eased(prev_load, target_load) ==
    IF target_load > prev_load
    THEN Min(target_load, RoundF32(prev_load + FALL_FRAC_PER_FRAME))
    ELSE Max(target_load, SubF32(prev_load, FALL_FRAC_PER_FRAME))

\* update_cpu_load without the f32::max that stops the fall at the target.
update_cpu_load_unclamped(prev_load, target_load) ==
    IF target_load > prev_load
    THEN target_load
    ELSE SubF32(prev_load, FALL_FRAC_PER_FRAME)

\* update_cpu_load that stops the fall less than one step above the target.
update_cpu_load_short(prev_load, target_load) ==
    IF target_load > prev_load
    THEN target_load
    ELSE IF prev_load - target_load < FALL_FRAC_PER_FRAME
    THEN prev_load
    ELSE SubF32(prev_load, FALL_FRAC_PER_FRAME)

\* fn update_cpu_load(prev_load, target_load)
update_cpu_load(prev_load, target_load) ==
    IF target_load > prev_load
    THEN target_load
    ELSE Max(target_load, SubF32(prev_load, FALL_FRAC_PER_FRAME))

\* One pass of the body of `for frame in 0..FRAMES_PER_SECOND`: the perf
\* data of the frame that follows prev on the way to target.
NextFrame(prev, target) ==
    PerfData(update_cpu_load(prev.all_cores_load, target.all_cores_load),
             target.all_cores_avg,
             update_cpu_load(prev.peak_core_load, target.peak_core_load),
             target.memory_load,
             target.daytime)

\* The frames of passes frame .. FRAMES_PER_SECOND - 1 of the loop, each with
\* the delay it is scheduled after.
RECURSIVE BlendFrames(_, _, _)
BlendFrames(prev, target, frame) ==
    IF frame >= FRAMES_PER_SECOND THEN << >>
    ELSE LET p == NextFrame(prev, target)
         IN  <<[delay |-> frame * FRAME_MS, perf |-> p]>>
                 \o BlendFrames(p, target, frame + 1)

\* NewUnaltered with the frame to render left out.
NewUnalteredNoFrame(new) ==
    [previous |-> Some(new), current |-> None, scheduled |-> << >>]

\* What update_state returns with no history: State { previous: Some(new),
\* current: Some(new) }, nothing scheduled.
NewUnaltered(new) ==
    [previous |-> Some(new), current |-> Some(new), scheduled |-> << >>]

\* Blended that returns the raw target as the state to keep.
BlendedKeepsTarget(prev, target) ==
    [previous |-> Some(target), current |-> None,
     scheduled |-> BlendFrames(prev, target, 0)]

\* Blended that returns no state to keep.
BlendedForgets(prev, target) ==
    [previous |-> None, current |-> None, scheduled |-> BlendFrames(prev, target, 0)]

\* The (Some(prev), Some(target)) arm: the frames of the loop are
\* scheduled and the last one calculated is returned as previous.
Blended(prev, target) ==
    LET fs == BlendFrames(prev, target, 0)
    IN  [previous |-> Some(fs[Len(fs)].perf), current |-> None, scheduled |-> fs]

\* pub fn update_state(input: State) -> State, with the frames it
\* schedules (show_perf::spawn_after(delay, prev)) in order.
update_state(input) ==
    IF input.previous # None /\ input.current = None
        THEN [previous |-> input.previous, current |-> input.previous,
              scheduled |-> << >>]
    ELSE IF input.previous = None /\ input.current # None
        THEN NewUnaltered(input.current.val)
    ELSE IF input.previous # None /\ input.current # None
        THEN Blended(input.previous.val, input.current.val)
    ELSE [previous |-> None, current |-> None, scheduled |-> << >>]

\* The frames one update gives the display, in playback order: the frame to
\* render now, if any, then the scheduled ones.
FramesOf(r) ==
    (IF r.current = None THEN << >> ELSE <<r.current.val>>)
        \o [k \in 1..Len(r.scheduled) |-> r.scheduled[k].perf]

(***************************************************************************)
(* main.rs: the tasks                                                      *)
(***************************************************************************)

\* const BLANK_SCREEN_MS: u64 = 30000;
BLANK_SCREEN_MS == 30000
\* `if elapsed.to_millis() < 2000`
NO_DATA_MS == 2000
\* `Mono::delay(250.millis())`
POLL_MS == 250
\* Capacity of the frame queue (FramesDeque).
FRAMES_CAPACITY == 64

\* fugit's n.millis() and Duration::to_millis() on the 1 MHz timer.
Millis(ms) == ms * 1000
ToMillis(us) == us \div 1000

\* ---- bounds of the tasks' environment --------------------------------------
\* The clock stops here.
MaxTime == 31000000
\* The clock is observed this many microseconds before a watchdog poll is
\* due: at the poll and one tick after the poll before it.
Backs == {0, 249999}
\* Polls during which the watchdog is held up for a tick between sampling
\* the clock and taking the msg_time lock.
MaxSlips == 1
\* Load levels of the snapshots the host sends: 0.0, 0.5 and 1.0.
Loads == {0, LoadScale \div 2, LoadScale}

\* message::FromHost as decoded by postcard::from_bytes_cobs, or the decode
\* error.
ShowPerf(d) == [tag |-> "ShowPerf", perf |-> d]
ClearScreen == [tag |-> "ClearScreen"]
DecodeErr   == [tag |-> "Err"]

\* What handle_packet decodes under SpecWatchdog and under SpecAnim.
WdMsgs ==
    {ShowPerf(PerfData(LoadScale \div 2, LoadScale \div 2, LoadScale \div 2,
                       LoadScale \div 2, TRUE)),
     ClearScreen}
AnimMsgs ==
    {ShowPerf(PerfData(l, LoadScale \div 2, p, LoadScale \div 2, p # 0)) :
        l \in Loads, p \in {0, LoadScale}}
    \cup {ClearScreen, DecodeErr}

\* StampMsgTime that never stamps.
StampMsgTimeNever(msg, t, old) == old

\* StampMsgTime that stamps on every message decoded.
StampMsgTimeAlways(msg, t, old) == IF msg.tag # "Err" THEN t ELSE old

\* The value handle_packet leaves in msg_time at time t.
StampMsgTime(msg, t, old) == IF msg.tag = "ShowPerf" THEN t ELSE old

\* SpawnHandlePerf that never hands the snapshot over.
SpawnHandlePerfNever(slot, d) == slot

\* handle_perf::spawn(perf_data).ok(): the slot afterwards; a spawn while
\* the task is still pending fails and is ignored.
SpawnHandlePerf(slot, d) == IF slot = None THEN Some(d) ELSE slot

\* Requeue that leaves the frames of the update before in the queue.
RequeueKeepsStale(old, new) ==
    SubSeq(old \o new, 1, Min(Len(old) + Len(new), FRAMES_CAPACITY))

\* FramesDeque after one update: the frames left of the update before are
\* discarded, the new ones pushed in order until the queue is full.
Requeue(old, new) == SubSeq(new, 1, Min(Len(new), FRAMES_CAPACITY))

\* The two steps of Requeue: the frames left in the queue are discarded,
\* and a frame is pushed unless the queue is full.
DiscardStale(q) == << >>
PushBack(q, f) == IF Len(q) < FRAMES_CAPACITY THEN Append(q, f) ELSE q

\* CheckedDurationSince that saturates at zero (saturating_duration_since).
SaturatingDurationSince(instant, earlier) ==
    IF instant >= earlier THEN instant - earlier ELSE 0

\* instant.checked_duration_since(msg_time): -1 stands for None.
CheckedDurationSince(instant, earlier) ==
    IF instant >= earlier THEN instant - earlier ELSE -1

\* WatchdogStep with `<=` for `<` in the first comparison.
WatchdogStepLe(state, elapsed) ==
    IF elapsed = -1 THEN [state |-> state, effect |-> "none"]
    ELSE IF ToMillis(elapsed) <= NO_DATA_MS THEN [state |-> "None", effect |-> "none"]
    ELSE IF ToMillis(elapsed) < BLANK_SCREEN_MS
        THEN IF state # "NoData"
             THEN [state |-> "NoData", effect |-> "draw"]
             ELSE [state |-> state, effect |-> "none"]
    ELSE IF state # "ClearScreen"
        THEN [state |-> "ClearScreen", effect |-> "clear"]
        ELSE [state |-> state, effect |-> "none"]

\* WatchdogStep without the `state != TimeoutState::NoData` test: it draws
\* the message at every poll in the range.
WatchdogStepRedraw(state, elapsed) ==
    IF elapsed = -1 THEN [state |-> state, effect |-> "none"]
    ELSE IF ToMillis(elapsed) < NO_DATA_MS THEN [state |-> "None", effect |-> "none"]
    ELSE IF ToMillis(elapsed) < BLANK_SCREEN_MS
        THEN [state |-> "NoData", effect |-> "draw"]
    ELSE IF state # "ClearScreen"
        THEN [state |-> "ClearScreen", effect |-> "clear"]
        ELSE [state |-> state, effect |-> "none"]

\* WatchdogStep that draws the message after a quarter of NO_DATA_MS.
WatchdogStepEarly(state, elapsed) ==
    IF elapsed = -1 THEN [state |-> state, effect |-> "none"]
    ELSE IF ToMillis(elapsed) < NO_DATA_MS \div 4 THEN [state |-> "None", effect |-> "none"]
    ELSE IF ToMillis(elapsed) < BLANK_SCREEN_MS
        THEN IF state # "NoData"
             THEN [state |-> "NoData", effect |-> "draw"]
             ELSE [state |-> state, effect |-> "none"]
    ELSE IF state # "ClearScreen"
        THEN [state |-> "ClearScreen", effect |-> "clear"]
        ELSE [state |-> state, effect |-> "none"]

\* The body of msg_time.lock in no_data_timeout for the sampled elapsed
\* time: the watchdog's state afterwards and what it does to the display.
WatchdogStep(state, elapsed) ==
    IF elapsed = -1 THEN [state |-> state, effect |-> "none"]
    ELSE IF ToMillis(elapsed) < NO_DATA_MS THEN [state |-> "None", effect |-> "none"]
    ELSE IF ToMillis(elapsed) < BLANK_SCREEN_MS
        THEN IF state # "NoData"
             THEN [state |-> "NoData", effect |-> "draw"]
             ELSE [state |-> state, effect |-> "none"]
    ELSE IF state # "ClearScreen"
        THEN [state |-> "ClearScreen", effect |-> "clear"]
        ELSE [state |-> state, effect |-> "none"]

\* The range the elapsed time of a poll falls in.
ElapsedClass(elapsed) ==
    IF elapsed = -1 THEN "skipped"
    ELSE IF elapsed < Millis(NO_DATA_MS) THEN "normal"
    ELSE IF elapsed < Millis(BLANK_SCREEN_MS) THEN "stale"
    ELSE "blank"

NoAnim == [previous |-> None, target |-> None, pending |-> << >>,
           result |-> update_state([previous |-> None, current |-> None])]

NoRx == [tag |-> "none", handed |-> FALSE]

\* InitialMsgTime that lets the first delay of the watchdog pass first.
InitialMsgTimeLate(t) == t + Millis(POLL_MS)

\* `msg_time: Mono::now()` in init's Shared: the instant init returns.
InitialMsgTime(t) == t

TaskInit ==
    /\ now = 0
    /\ msg_time = InitialMsgTime(0)
    /\ prev_perf = None
    /\ frames = << >>
    /\ display = "clear"
    /\ hpkt = None
    /\ hperf = None
    /\ halted = FALSE
    /\ wd = [pc |-> "delay", state |-> "None", instant |-> 0, due |-> Millis(POLL_MS),
             slips |-> 0, elapsed |-> 0]
    /\ last_rx = 0
    /\ anim = NoAnim
    /\ poll = [kind |-> "none", from |-> "None", draws |-> 0, clears |-> 0]
    /\ shown = None
    /\ rx = NoRx
    /\ ho = [dropped |-> {}, decoded |-> << >>]
    /\ play = [upd |-> 0, k |-> 0, at |-> 0, warned |-> -1]

(***************************************************************************)
(* daemon avg.rs: the Averager                                             *)
(*                                                                         *)
(* The f64 values are modelled as exact fractions [n, d] in lowest terms:  *)
(* the arithmetic is that of the reals, f64 rounding is not modelled.      *)
(***************************************************************************)

\* ---- bounds of the Averager's environment --------------------------------
\* add_sample calls on one Averager.
MaxAdds == 5
\* The max_samples values an Averager is created with.
MaxSamplesChoices == {2, 3}
\* The samples added.
SampleValues == {5, 15, 100}

RECURSIVE Gcd(_, _)
Gcd(a, b) == IF b = 0 THEN a ELSE Gcd(b, a % b)

\* The fraction n / d (n >= 0, d > 0) in lowest terms.
Rat(n, d) == [n |-> n \div Gcd(n, d), d |-> d \div Gcd(n, d)]

\* value * (k as f64), scaled + sample, (...) / (k as f64).
RatMul(a, k) == Rat(a.n * k, a.d)
RatAdd(a, sample) == Rat(a.n + sample * a.d, a.d)
RatDiv(a, k) == Rat(a.n, a.d * k)

\* Averager::new(max_samples), for max_samples > 1.
new(max_samples) ==
    [value |-> None, sample_count |-> 0, max_samples |-> max_samples]

\* Averager::average.
average(a) == a.value

\* NextCount that does not saturate.
NextCountUnbounded(sample_count, max_samples) == sample_count + 1

\* `if self.sample_count < self.max_samples { self.sample_count += 1; }`
NextCount(sample_count, max_samples) ==
    IF sample_count < max_samples THEN sample_count + 1 ELSE sample_count

\* Averager::add_sample: the Averager afterwards.
AddSample(a, sample) ==
    IF a.value # None
    THEN LET count == NextCount(a.sample_count, a.max_samples)
             scaled == RatMul(a.value.val, count - 1)
         IN  [a EXCEPT !.sample_count = count,
                       !.value = Some(RatDiv(RatAdd(scaled, sample), count))]
    ELSE [a EXCEPT !.value = Some(Rat(sample, 1)), !.sample_count = 1]

(***************************************************************************)
(* main.rs: the tasks, their priorities and the resources they share       *)
(***************************************************************************)

Tasks == {"usb_event", "handle_packet", "handle_perf", "no_data_timeout",
          "show_perf", "pulse_led"}

\* #[task(priority = ...)]; show_perf and pulse_led name no priority and
\* run at the lowest.
Priority(t) ==
    CASE t = "usb_event" -> 4
      [] t = "handle_packet" -> 3
      [] t = "handle_perf" -> 2
      [] t = "no_data_timeout" -> 2
      [] t = "show_perf" -> 1
      [] t = "pulse_led" -> 1

Resources == {"frames", "serial", "display", "pulse_led", "prev_perf", "msg_time"}

\* #[task(shared = [...])]: the tasks that share the resource r.
Users(r) ==
    CASE r = "frames" -> {"handle_perf", "show_perf"}
      [] r = "serial" -> {"usb_event"}
      [] r = "display" -> {"show_perf", "no_data_timeout"}
      [] r = "pulse_led" -> {"pulse_led", "usb_event"}
      [] r = "prev_perf" -> {"handle_perf"}
      [] r = "msg_time" -> {"handle_packet", "no_data_timeout"}

\* The largest element of a set of naturals, 0 for the empty set.
MaxOf(S) == IF S = {} THEN 0 ELSE CHOOSE x \in S : \A y \in S : y <= x

\* Ceiling that is the priority of the lowest task that shares r.
CeilingLowest(r) ==
    CHOOSE x \in {Priority(t) : t \in Users(r)} :
        \A y \in {Priority(t) : t \in Users(r)} : x <= y

\* The ceiling of the resource r: the priority of the highest task that
\* shares it.
Ceiling(r) == MaxOf({Priority(t) : t \in Users(r)})

\* The resources task t holds when it is at position p: those of the
\* lock(...) closure p lies in.
HeldAt(t, p) ==
    CASE t = "usb_event" /\ p = "cs" -> {"serial", "pulse_led"}
      [] t = "handle_packet" /\ p = "stamp" -> {"msg_time"}
      [] t = "handle_perf" /\ p \in {"take", "clear", "push", "store"}
            -> {"prev_perf", "frames"}
      [] t = "show_perf" /\ p = "pop" -> {"display", "frames"}
      [] t = "no_data_timeout" /\ p = "check" -> {"msg_time"}
      [] t = "no_data_timeout" /\ p = "draw" -> {"msg_time", "display"}
      [] t = "pulse_led" /\ p = "led" -> {"pulse_led"}
      [] OTHER -> {}

Held(t) == HeldAt(t, pc[t])

\* Level that takes no account of the locks held.
LevelOfTasksOnly == MaxOf({Priority(stack[i]) : i \in 1..Len(stack)})

\* The priority the core runs at: the highest of the priorities of the
\* tasks that have started and of the ceilings of the resources they hold.
\* A pending task starts when its priority is above it.
Level ==
    MaxOf({Priority(stack[i]) : i \in 1..Len(stack)}
          \cup {Ceiling(r) : r \in UNION {Held(stack[i]) : i \in 1..Len(stack)}})

\* init spawns pulse_led, show_perf and no_data_timeout; show_perf and
\* no_data_timeout begin with a delay, pulse_led with its lock.
SchedInit ==
    /\ pc = [t \in Tasks |->
                IF t \in {"show_perf", "no_data_timeout", "pulse_led"}
                THEN "await" ELSE "idle"]
    /\ stack = << >>
    /\ ready = {"pulse_led"}
    /\ hp = [prev |-> None, out |-> << >>, res |-> None, i |-> 0, n |-> 0]
    /\ irqs = 0

TickInit ==
    /\ sp = [instant |-> Millis(FRAME_MS)]
    /\ host = [n |-> 0, next |-> 0]

DaemonInit ==
    /\ averager = new(2)
    /\ samples = << >>
    /\ old_average = None
    /\ svc = [pc |-> "detect", run_mode |-> "Run"]

\* A fresh Averager replaces the one at hand.
averager_new(max_samples) ==
    /\ averager' = new(max_samples)
    /\ samples' = << >>
    /\ old_average' = None
    /\ UNCHANGED svc
    /\ UNCHANGED <<framerVars, taskVars, tickVars, schedVars, monoVars>>

\* avg.add_sample(sample).
add_sample(sample) ==
    /\ Len(samples) < MaxAdds
    /\ averager' = AddSample(averager, sample)
    /\ samples' = Append(samples, sample)
    /\ old_average' = average(averager)
    /\ UNCHANGED svc
    /\ UNCHANGED <<framerVars, taskVars, tickVars, schedVars, monoVars>>

AvgNext ==
    \/ \E m \in MaxSamplesChoices : averager_new(m)
    \/ \E sample \in SampleValues : add_sample(sample)

\* MonoTimer::new: `MonoTimer { tim: timer, ovf: 0 }`, the counter started
\* with the overflow flag cleared.
MonoInit ==
    /\ timer = [cnt |-> 0, uif |-> FALSE, ovf |-> 0, steps |-> 0]
    /\ nowcall = [pc |-> "idle", cnt |-> 0, ret |-> -1, prev |-> -1,
                  split |-> FALSE]

Init == FramerInit /\ TaskInit /\ DaemonInit /\ TickInit /\ SchedInit /\ MonoInit

\* The clock advances to t.  A pending handle_perf runs before any time
\* passes, a sleeping watchdog wakes when its delay is over, and a watchdog
\* that has sampled the clock is held up for at most one tick.
Advance(t) ==
    /\ ~halted
    /\ hperf = None
    /\ t > now
    /\ t <= MaxTime
    /\ IF wd.pc = "delay"
       THEN t <= wd.due /\ (wd.due - t) \in Backs
       ELSE t = now + 1 /\ now = wd.instant /\ wd.slips < MaxSlips
    /\ now' = t
    /\ wd' = IF wd.pc = "delay" THEN wd ELSE [wd EXCEPT !.slips = @ + 1]
    /\ UNCHANGED <<msg_time, prev_perf, frames, display, hpkt, hperf, halted,
                   last_rx, anim, poll, shown, rx, ho, play>>
    /\ UNCHANGED framerVars
    /\ UNCHANGED daemonVars
    /\ UNCHANGED tickVars
    /\ UNCHANGED schedVars
    /\ UNCHANGED monoVars

\* Task handle_packet (priority 3) on a frame that decodes to msg.  A decode
\* error ends in asm::bkpt(): execution goes on under a debugger and
\* faults without one.
HandlePacket(msg, fault) ==
    /\ ~halted
    /\ msg_time' = StampMsgTime(msg, now, msg_time)
    /\ last_rx' = IF msg.tag = "ShowPerf" THEN now ELSE last_rx
    /\ hperf' = IF msg.tag = "ShowPerf" THEN SpawnHandlePerf(hperf, msg.perf) ELSE hperf
    /\ halted' = (msg.tag = "Err" /\ fault)
    /\ rx' = IF msg.tag = "ClearScreen" THEN rx
             ELSE [tag |-> msg.tag, handed |-> msg.tag = "ShowPerf" /\ hperf = None]
    /\ UNCHANGED <<now, prev_perf, frames, display, wd, anim, poll, shown, play>>

\* handle_packet on a frame the environment has framed and handed over: msg
\* is what postcard::from_bytes_cobs makes of it.
handle_packet(msg, fault) ==
    /\ hpkt = None
    /\ HandlePacket(msg, fault)
    /\ UNCHANGED <<hpkt, ho>>
    /\ UNCHANGED framerVars
    /\ UNCHANGED daemonVars
    /\ UNCHANGED tickVars
    /\ UNCHANGED schedVars
    /\ UNCHANGED monoVars

\* Task handle_perf (priority 2): it does not start while no_data_timeout,
\* of the same priority, is between its clock sample and its lock.
handle_perf ==
    /\ ~halted
    /\ hpkt = None
    /\ hperf # None
    /\ wd.pc = "delay"
    /\ \E r \in {update_state([previous |-> prev_perf, current |-> hperf])} :
           /\ prev_perf' = r.previous
           /\ frames' = Requeue(frames, FramesOf(r))
           /\ anim' = [previous |-> prev_perf, target |-> hperf,
                       pending |-> frames, result |-> r]
    /\ hperf' = None
    /\ rx' = NoRx
    /\ play' = IF host.n > 0
               THEN [upd |-> now, k |-> 0, at |-> now, warned |-> -1] ELSE play
    /\ UNCHANGED <<now, msg_time, display, hpkt, halted, wd, last_rx, poll, shown, ho>>
    /\ UNCHANGED framerVars
    /\ UNCHANGED daemonVars
    /\ UNCHANGED tickVars
    /\ UNCHANGED schedVars
    /\ UNCHANGED monoVars

\* no_data_timeout (priority 2) wakes from Mono::delay and samples the
\* clock: `let instant = Mono::now()`.
wd_sample ==
    /\ ~halted
    /\ wd.pc = "delay"
    /\ now >= wd.due
    /\ wd' = [wd EXCEPT !.pc = "sampled", !.instant = now]
    /\ UNCHANGED <<now, msg_time, prev_perf, frames, display, hpkt, hperf, halted,
                   last_rx, anim, poll, shown, rx, ho, play>>
    /\ UNCHANGED framerVars
    /\ UNCHANGED daemonVars
    /\ UNCHANGED tickVars
    /\ UNCHANGED schedVars
    /\ UNCHANGED monoVars

\* no_data_timeout takes the msg_time lock, runs the body of the loop and
\* goes back to Mono::delay(250.millis()).
wd_poll ==
    /\ ~halted
    /\ wd.pc = "sampled"
    /\ \E elapsed \in {CheckedDurationSince(wd.instant, msg_time)} :
       \E r \in {WatchdogStep(wd.state, elapsed)} :
           /\ wd' = [wd EXCEPT !.pc = "delay", !.state = r.state,
                               !.due = now + Millis(POLL_MS)]
           /\ display' = CASE r.effect = "draw" -> "message"
                           [] r.effect = "clear" -> "clear"
                           [] OTHER -> display
           /\ poll' = LET k == ElapsedClass(elapsed)
                          same == poll.kind = k
                      IN  [kind |-> k, from |-> wd.state,
                           draws |-> (IF same THEN poll.draws ELSE 0)
                                       + (IF r.effect = "draw" THEN 1 ELSE 0),
                           clears |-> (IF same THEN poll.clears ELSE 0)
                                       + (IF r.effect = "clear" THEN 1 ELSE 0)]
           /\ play' = IF host.n > 0 /\ r.effect # "none"
                      THEN [play EXCEPT !.warned = now] ELSE play
    /\ UNCHANGED <<now, msg_time, prev_perf, frames, hpkt, hperf, halted, last_rx,
                   anim, shown, rx, ho>>
    /\ UNCHANGED framerVars
    /\ UNCHANGED daemonVars
    /\ UNCHANGED tickVars
    /\ UNCHANGED schedVars
    /\ UNCHANGED monoVars

\* PopFront that takes the newest frame.
PopBack(q) == [frame |-> q[Len(q)], rest |-> SubSeq(q, 1, Len(q) - 1)]

\* frames.pop_front() on a queue that is not empty.
PopFront(q) == [frame |-> Head(q), rest |-> Tail(q)]

\* The body of an iteration of show_perf (the task of the lowest priority)
\* after its delay_until: under the lock on display and frames it takes the
\* frame at the front of the queue, if any, and draws it.
ShowPerfIteration ==
    /\ ~halted
    /\ hpkt = None
    /\ hperf = None
    /\ wd.pc = "delay"
    /\ IF frames # << >>
       THEN /\ frames' = PopFront(frames).rest
            /\ shown' = Some(PopFront(frames).frame)
            /\ display' = "perf"
            /\ play' = IF host.n > 0 THEN [play EXCEPT !.k = @ + 1, !.at = now]
                        ELSE play
       ELSE UNCHANGED <<frames, shown, display, play>>
    /\ UNCHANGED <<now, msg_time, prev_perf, hpkt, hperf, halted, wd, last_rx, anim,
                   poll, rx, ho>>
    /\ UNCHANGED framerVars
    /\ UNCHANGED daemonVars

\* One iteration of show_perf, whenever the environment lets its delay be
\* over.
show_perf ==
    /\ ShowPerfIteration
    /\ UNCHANGED tickVars
    /\ UNCHANGED schedVars
    /\ UNCHANGED monoVars

\* const SEND_PERIOD: Duration = Duration::from_secs(1), in milliseconds.
SEND_PERIOD_MS == 1000

\* ---- bounds of the timed playback ------------------------------------------
\* Snapshots the host sends in one run.
MaxUpdates == 4
\* When the host sends its first snapshot, in microseconds after show_perf
\* has started: such that the second snapshot comes with a tick of the
\* display, with the first tick, a microsecond before and after it, and
\* between two ticks.
FirstSends == {56000, 65999, 66000, 66001, 100000}

\* One iteration of show_perf at the instant its delay_until is over:
\* `instant += perf::FRAME_MS.millis(); Mono::delay_until(instant).await`.
show_perf_tick ==
    /\ now = sp.instant
    /\ ShowPerfIteration
    /\ sp' = [sp EXCEPT !.instant = @ + Millis(FRAME_MS)]
    /\ UNCHANGED host
    /\ UNCHANGED schedVars
    /\ UNCHANGED monoVars

\* The host's snapshot arrives on time and handle_packet decodes it: the
\* first at one of FirstSends, each later one SEND_PERIOD after the one
\* before.
timed_update(msg) ==
    /\ host.n < MaxUpdates
    /\ IF host.n = 0 THEN now \in FirstSends ELSE now = host.next
    /\ hpkt = None
    /\ hperf = None
    /\ HandlePacket(msg, FALSE)
    /\ host' = [n |-> host.n + 1, next |-> now + Millis(SEND_PERIOD_MS)]
    /\ UNCHANGED <<hpkt, ho, sp>>
    /\ UNCHANGED framerVars
    /\ UNCHANGED daemonVars
    /\ UNCHANGED schedVars
    /\ UNCHANGED monoVars

\* The instants at which something is due after now.
TickTargets ==
    {t \in {sp.instant} \cup (IF host.n = 0 THEN FirstSends ELSE {host.next}) :
        t > now}

\* The clock advances to the next instant at which the display tick or a
\* snapshot is due; a tick or a snapshot that is due now is served first,
\* and so is a pending handle_perf.
Elapse ==
    /\ ~halted
    /\ hperf = None
    /\ sp.instant > now
    /\ host.n = 0 \/ host.next > now
    /\ TickTargets # {}
    /\ now' = CHOOSE t \in TickTargets : \A u \in TickTargets : t <= u
    /\ host.n = 0 => \E t \in FirstSends : now' <= t
    /\ UNCHANGED <<msg_time, prev_perf, frames, display, hpkt, hperf, halted, wd,
                   last_rx, anim, poll, shown, rx, ho, play>>
    /\ UNCHANGED framerVars
    /\ UNCHANGED daemonVars
    /\ UNCHANGED tickVars
    /\ UNCHANGED schedVars
    /\ UNCHANGED monoVars

FramerNext ==
    \/ \E n \in PayloadLens : HostSend(n)
    \/ \E outLen \in OutLens : \E p \in PollOutcomes(wire, buf_next) :
           read_packet(outLen, p)

SpecFramer == Init /\ [][FramerNext]_vars

\* handle_usb_event's call: `serial.read_packet(&mut result[..])` with
\* `result = [0u8; io::BUF_BYTES]`.
LinkNext ==
    \/ \E n \in PayloadLens : HostSend(n)
    \/ \E p \in PollOutcomes(wire, buf_next) : read_packet(BUF_BYTES, p)

SpecLink == Init /\ [][LinkNext]_vars


\* The times the clock may advance to from the current state.
AdvanceTargets ==
    IF wd.pc = "delay" THEN {wd.due - b : b \in Backs} ELSE {now + 1}

WatchdogNext ==
    \/ \E t \in AdvanceTargets : Advance(t)
    \/ \E msg \in WdMsgs : handle_packet(msg, FALSE)
    \/ handle_perf
    \/ wd_sample
    \/ wd_poll

SpecWatchdog == Init /\ [][WatchdogNext]_vars

AnimNext ==
    \/ \E msg \in AnimMsgs : \E fault \in BOOLEAN : handle_packet(msg, fault)
    \/ handle_perf

SpecAnim == Init /\ [][AnimNext]_vars

\* The animation step and the display task: snapshots of full and of no
\* load arrive at any time.
QueueMsgs ==
    {ShowPerf(PerfData(l, LoadScale \div 2, l, LoadScale \div 2, TRUE)) :
        l \in {0, LoadScale}}

QueueNext ==
    \/ \E msg \in QueueMsgs : handle_packet(msg, FALSE)
    \/ handle_perf
    \/ show_perf

SpecQueue == Init /\ [][QueueNext]_vars

\* The timed playback: snapshots of full and of no load arrive SEND_PERIOD
\* apart and the display ticks every FRAME_MS.
TickNext ==
    \/ Elapse
    \/ \E msg \in QueueMsgs : timed_update(msg)
    \/ handle_perf
    \/ show_perf_tick

SpecTick == Init /\ [][TickNext]_vars

\* ---- bounds of the playback under the watchdog ------------------------------
\* Milliseconds from one snapshot of the host to the next: SEND_PERIOD, and
\* a host that is held up for a little over NO_DATA_MS and over
\* BLANK_SCREEN_MS (detectsend_loop left on an error and entered again).
SendGaps == {SEND_PERIOD_MS, NO_DATA_MS + 100, BLANK_SCREEN_MS + 100}
\* The clock stops here.
SilenceHorizon == 33000000

\* The host's snapshot arrives and handle_packet decodes it: the first at
\* one of FirstSends, each later one a gap of SendGaps after the one before.
late_update(msg, gap) ==
    /\ host.n < MaxUpdates
    /\ IF host.n = 0 THEN now \in FirstSends ELSE now = host.next
    /\ hpkt = None
    /\ hperf = None
    /\ HandlePacket(msg, FALSE)
    /\ host' = [n |-> host.n + 1, next |-> now + Millis(gap)]
    /\ UNCHANGED <<hpkt, ho, sp>>
    /\ UNCHANGED framerVars
    /\ UNCHANGED daemonVars
    /\ UNCHANGED schedVars
    /\ UNCHANGED monoVars

\* The instants at which the display tick, the watchdog's poll or a
\* snapshot is due after now.
DueTargets ==
    {t \in {sp.instant, wd.due}
            \cup (IF host.n = 0 THEN FirstSends
                  ELSE IF host.n < MaxUpdates THEN {host.next} ELSE {}) :
        t > now}

\* The clock advances to the next instant at which something is due; what
\* is due now (a display tick, a poll of the watchdog, a snapshot, a
\* pending handle_perf) is served first.
ElapseToDue ==
    /\ ~halted
    /\ hperf = None
    /\ wd.pc = "delay"
    /\ sp.instant > now
    /\ wd.due > now
    /\ host.n \in {0, MaxUpdates} \/ host.next > now
    /\ now' = CHOOSE t \in DueTargets : \A u \in DueTargets : t <= u
    /\ now' <= SilenceHorizon
    /\ host.n = 0 => \E t \in FirstSends : now' <= t
    /\ UNCHANGED <<msg_time, prev_perf, frames, display, hpkt, hperf, halted, wd,
                   last_rx, anim, poll, shown, rx, ho, play>>
    /\ UNCHANGED framerVars
    /\ UNCHANGED daemonVars
    /\ UNCHANGED tickVars
    /\ UNCHANGED schedVars
    /\ UNCHANGED monoVars

\* The timed playback under the watchdog: the display ticks every FRAME_MS,
\* the watchdog polls every POLL_MS, and the host may fall silent.
SilenceNext ==
    \/ ElapseToDue
    \/ \E msg \in QueueMsgs : \E gap \in SendGaps : late_update(msg, gap)
    \/ handle_perf
    \/ show_perf_tick
    \/ wd_sample
    \/ wd_poll

SpecSilence == Init /\ [][SilenceNext]_vars

(***************************************************************************)
(* The wire format: postcard over COBS (daemon lib.rs, firmware main.rs)   *)
(***************************************************************************)

\* The little-endian bytes of the f32 v, for the loads of Loads:
\* 0.0 = 0x00000000, 0.5 = 0x3F000000, 1.0 = 0x3F800000.
F32LE(v) ==
    CASE v = 0 -> <<0, 0, 0, 0>>
      [] v = LoadScale \div 2 -> <<0, 0, 0, 63>>
      [] v = LoadScale -> <<0, 0, 128, 63>>

\* The load whose f32 is the four bytes b, -1 for bytes of no load of Loads.
FromF32LE(b) ==
    IF \E v \in Loads : F32LE(v) = b
    THEN CHOOSE v \in Loads : F32LE(v) = b
    ELSE -1

\* postcard's serialization of a FromHost: the variant index as a varint,
\* then the fields of PerfData in declaration order, a bool as one byte.
Serialize(msg) ==
    IF msg.tag = "ClearScreen" THEN <<0>>
    ELSE <<1>> \o F32LE(msg.perf.all_cores_load) \o F32LE(msg.perf.all_cores_avg)
             \o F32LE(msg.perf.peak_core_load) \o F32LE(msg.perf.memory_load)
             \o <<IF msg.perf.daytime THEN 1 ELSE 0>>

\* Position of the first zero of d, 0 if it has none.
FirstZero(d) ==
    IF \E i \in 1..Len(d) : d[i] = 0
    THEN CHOOSE i \in 1..Len(d) : d[i] = 0 /\ \A j \in 1..(i - 1) : d[j] # 0
    ELSE 0

\* COBS encoding of d (shorter than 254 bytes): each run of non-zero bytes
\* is preceded by the distance to the zero that ended it.
RECURSIVE CobsEncode(_)
CobsEncode(d) ==
    LET z == FirstZero(d)
    IN  IF z = 0 THEN <<Len(d) + 1>> \o d
        ELSE <<z>> \o SubSeq(d, 1, z - 1) \o CobsEncode(SubSeq(d, z + 1, Len(d)))

\* postcard::to_allocvec_cobs(&msg): the COBS encoding and the terminator.
ToAllocvecCobs(msg) == CobsEncode(Serialize(msg)) \o <<TERMINATOR>>

\* COBS decoding of the bytes of b from position pos up to the first zero:
\* ok is FALSE when a run is cut short by the terminator or by the end of b.
RECURSIVE CobsDecode(_, _)
CobsDecode(b, pos) ==
    IF pos > Len(b) THEN [ok |-> FALSE, data |-> << >>]
    ELSE IF b[pos] = 0 THEN [ok |-> TRUE, data |-> << >>]
    ELSE LET c == b[pos]
             run == SubSeq(b, pos + 1, pos + c - 1)
         IN  IF pos + c - 1 > Len(b) \/ \E j \in 1..Len(run) : run[j] = 0
             THEN [ok |-> FALSE, data |-> << >>]
             ELSE LET rest == CobsDecode(b, pos + c)
                      last == pos + c <= Len(b) /\ b[pos + c] = 0
                  IN  [ok |-> rest.ok,
                       data |-> run \o (IF last \/ c = 255 THEN << >> ELSE <<0>>)
                                    \o rest.data]

\* postcard's deserialization of a FromHost from the bytes d; bytes after
\* the message are ignored.
Deserialize(d) ==
    IF Len(d) = 0 THEN DecodeErr
    ELSE IF d[1] = 0 THEN ClearScreen
    ELSE IF d[1] # 1 \/ Len(d) < 18 THEN DecodeErr
    ELSE LET f(k) == FromF32LE(SubSeq(d, 4 * k - 2, 4 * k + 1))
         IN  IF d[18] \notin {0, 1} \/ \E k \in 1..4 : f(k) = -1 THEN DecodeErr
             ELSE ShowPerf(PerfData(f(1), f(2), f(3), f(4), d[18] = 1))

\* postcard::from_bytes_cobs(&mut buf) on the frame b.
FromBytesCobs(b) ==
    LET d == CobsDecode(b, 1)
    IN  IF d.ok THEN Deserialize(d.data) ELSE DecodeErr

(***************************************************************************)
(* From the link to the display                                            *)
(***************************************************************************)

\* Messages the host sends under SpecE2E, and a frame that is not the
\* encoding of any message (COBS of the byte 5, no variant of FromHost).
LinkMsgs ==
    {ShowPerf(PerfData(l, LoadScale \div 2, l, LoadScale \div 2, TRUE)) :
        l \in {0, LoadScale}}
    \cup {ClearScreen}
BadFrame == <<2, 5, TERMINATOR>>
LinkFrames == {ToAllocvecCobs(m) : m \in LinkMsgs} \cup {BadFrame}

\* The host writes the frame f to the link: w.write(&msg_bytes).
HostWrite(f) ==
    /\ Len(sent) < MaxFrames
    /\ ~halted
    /\ wire' = wire \o f
    /\ sent' = Append(sent, f)
    /\ UNCHANGED <<buf, buf_next, call, got, consumed, ovf>>
    /\ UNCHANGED taskVars
    /\ UNCHANGED daemonVars
    /\ UNCHANGED tickVars
    /\ UNCHANGED schedVars
    /\ UNCHANGED monoVars

\* SpawnHandlePacket that lets the new frame take the place of the pending
\* one.
SpawnHandlePacketOverwrite(slot, k, bytes) == Some([k |-> k, buf |-> bytes])

\* app::handle_packet::spawn(result): the slot afterwards; the spawn fails
\* while the task spawned before has not finished.  k is the frame's index
\* in got.
SpawnHandlePacket(slot, k, bytes) ==
    IF slot = None THEN Some([k |-> k, buf |-> bytes]) ELSE slot

\* Task usb_event (priority 4, bound to USBCTRL_IRQ) with link outcome p:
\* handle_usb_event reads one packet into a buffer of BUF_BYTES bytes,
\* unwraps the result (an Err panics) and spawns handle_packet on a frame.
usb_event(p) ==
    /\ ~halted
    /\ SerialReadPacket(BUF_BYTES, p)
    /\ halted' = (call'.res # "ok")
    /\ hpkt' = IF call'.res = "ok" /\ call'.n > 0
               THEN SpawnHandlePacket(hpkt, Len(got'), call'.out)
               ELSE hpkt
    /\ ho' = IF call'.res = "ok" /\ call'.n > 0 /\ hpkt' # Some([k |-> Len(got'), buf |-> call'.out])
             THEN [ho EXCEPT !.dropped = @ \cup {Len(got')}]
             ELSE ho
    /\ UNCHANGED <<now, msg_time, prev_perf, frames, display, hperf, wd, last_rx,
                   anim, poll, shown, rx, play>>
    /\ UNCHANGED daemonVars
    /\ UNCHANGED tickVars
    /\ UNCHANGED schedVars
    /\ UNCHANGED monoVars

\* Task handle_packet (priority 3) on the buf it was spawned with.
handle_packet_task(fault) ==
    /\ hpkt # None
    /\ HandlePacket(FromBytesCobs(hpkt.val.buf), fault)
    /\ hpkt' = None
    /\ ho' = [ho EXCEPT !.decoded = Append(@, hpkt.val.k)]
    /\ UNCHANGED framerVars
    /\ UNCHANGED daemonVars
    /\ UNCHANGED tickVars
    /\ UNCHANGED schedVars
    /\ UNCHANGED monoVars

E2ENext ==
    \/ \E f \in LinkFrames : HostWrite(f)
    \/ \E p \in PollOutcomes(wire, buf_next) : usb_event(p)
    \/ \E fault \in BOOLEAN : handle_packet_task(fault)
    \/ handle_perf
    \/ show_perf
    \/ \E t \in AdvanceTargets : Advance(t)

SpecE2E == Init /\ [][E2ENext]_vars

SpecAvg == Init /\ [][AvgNext]_vars

(***************************************************************************)
(* daemon lib.rs and the mains: the service loop                           *)
(*                                                                         *)
(* The service thread runs `loop { match lib::detectsend_loop() { Ok(()) => *)
(* break, Err(e) => ... } sleep(DETECT_RETRY_DELAY) }`; stop() is called   *)
(* from the service control handler, on another thread.  svc.pc is where   *)
(* the service thread is; a sleep is one step.                             *)
(***************************************************************************)

\* const AVG_CPU_SAMPLES: usize = 15;
AVG_CPU_SAMPLES == 15

\* What detect_port and open_port may return.
PortOutcomes == {"ok", "err"}
\* What write_perf_data may return: Err before the sample is added
\* (sys.cpu_load), Err after it (sys.memory, w.write), or Ok.
WriteOutcomes == {"cpu_err", "io_err", "ok"}

\* Where the `?` of a call that returned o takes detectsend_loop: on to
\* the position next, or out with the Err, to the sleep of the outer loop.
Try(o, next) == IF o = "ok" THEN next ELSE "retry"

\* `if context.run_mode == RunMode::Stop { return Ok(()); }`
RunModeStops(run_mode) == run_mode = "Stop"

\* pub fn stop(): context.run_mode = RunMode::Stop.
stop ==
    /\ svc.run_mode = "Run"
    /\ svc' = [svc EXCEPT !.run_mode = "Stop"]
    /\ UNCHANGED <<averager, samples, old_average>>
    /\ UNCHANGED <<framerVars, taskVars, tickVars, schedVars, monoVars>>

\* `let pinfo = detect_port()?;`
detect_port(o) ==
    /\ svc.pc = "detect"
    /\ svc' = [svc EXCEPT !.pc = Try(o, "open")]
    /\ UNCHANGED <<averager, samples, old_average>>
    /\ UNCHANGED <<framerVars, taskVars, tickVars, schedVars, monoVars>>

\* `let mut port = open_port(&pinfo)?;` and, when the port is open,
\* `let mut cpu_avg = Averager::new(AVG_CPU_SAMPLES);`
open_port(o) ==
    /\ svc.pc = "open"
    /\ svc' = [svc EXCEPT !.pc = Try(o, "write")]
    /\ IF o = "ok"
       THEN /\ averager' = new(AVG_CPU_SAMPLES)
            /\ samples' = << >>
            /\ old_average' = None
       ELSE UNCHANGED <<averager, samples, old_average>>
    /\ UNCHANGED <<framerVars, taskVars, tickVars, schedVars, monoVars>>

\* `write_perf_data(&mut port, &mut cpu_avg, daytime())?;`: the load
\* measured is added to cpu_avg unless the measurement failed, and the
\* message is written.
write_perf_data(o, sample) ==
    /\ svc.pc = "write"
    /\ svc' = [svc EXCEPT !.pc = Try(IF o = "ok" THEN "ok" ELSE "err", "check")]
    /\ IF o = "cpu_err"
       THEN UNCHANGED <<averager, samples, old_average>>
       ELSE /\ averager' = AddSample(averager, sample)
            /\ samples' = Append(samples, sample)
            /\ old_average' = average(averager)
    /\ UNCHANGED <<framerVars, taskVars, tickVars, schedVars, monoVars>>

\* `match CONTEXT.lock() { Ok(context) => if context.run_mode ==
\* RunMode::Stop { return Ok(()); } ... }`: on Stop detectsend_loop returns
\* Ok(()) and the outer loop breaks.  The lock is never poisoned: no thread
\* panics while it holds it.
check_run_mode ==
    /\ svc.pc = "check"
    /\ svc' = [svc EXCEPT !.pc = IF RunModeStops(svc.run_mode) THEN "done"
                                 ELSE "sleep"]
    /\ UNCHANGED <<averager, samples, old_average>>
    /\ UNCHANGED <<framerVars, taskVars, tickVars, schedVars, monoVars>>

\* `std::thread::sleep(SEND_PERIOD - CPU_POLL_PERIOD);` and the next pass
\* of the loop.  A service that is not stopped sends MaxAdds snapshots.
send_sleep ==
    /\ svc.pc = "sleep"
    /\ svc.run_mode = "Stop" \/ Len(samples) < MaxAdds
    /\ svc' = [svc EXCEPT !.pc = "write"]
    /\ UNCHANGED <<averager, samples, old_average>>
    /\ UNCHANGED <<framerVars, taskVars, tickVars, schedVars, monoVars>>

\* The outer loop's Err arm: the error is logged,
\* `std::thread::sleep(lib::DETECT_RETRY_DELAY)`, and detectsend_loop is
\* called again.
retry_sleep ==
    /\ svc.pc = "retry"
    /\ svc' = [svc EXCEPT !.pc = "detect"]
    /\ UNCHANGED <<averager, samples, old_average>>
    /\ UNCHANGED <<framerVars, taskVars, tickVars, schedVars, monoVars>>

\* The steps of the service thread.
ServiceThread ==
    \/ \E o \in PortOutcomes : detect_port(o)
    \/ \E o \in PortOutcomes : open_port(o)
    \/ \E o \in WriteOutcomes : \E sample \in SampleValues : write_perf_data(o, sample)
    \/ check_run_mode
    \/ send_sleep
    \/ retry_sleep

ServiceNext == stop \/ ServiceThread

\* The service thread keeps running: a step of it that is possible is
\* taken.  Nothing is assumed of the device, nor of when stop is called.
SpecService == Init /\ [][ServiceNext]_vars /\ WF_vars(ServiceThread)

(***************************************************************************)
(* mono.rs: MonoTimer on the 16-bit timer TIM2                             *)
(*                                                                         *)
(* The counter runs while the code does: it may step between any two       *)
(* register reads of now().  now() and on_interrupt take &mut self and do  *)
(* not interleave with each other.  The sums of now() stay below 2^31      *)
(* within the bounds, so that wrapping_add does not wrap.                  *)
(***************************************************************************)

\* `timer.arr.write(|w| w.arr().bits(u16::MAX))`: the counter counts from 0
\* to ARR and overflows to 0.
ARR == 65535
\* `0x10000`: the ticks of one period of the counter.
PERIOD == 65536

\* ---- bounds of the timer's environment -----------------------------------
\* Ticks the counter advances by in one step: one tick, and all but two of
\* a period.
CountSteps == {1, ARR - 1}
\* Steps of the counter in one run.
MaxCounts == 6
\* Overflows of the counter in one run.
MaxOverflows == 2

\* The counter overflows on a step of d ticks.
Overflows(d) == timer.cnt + d > ARR

\* The hardware: the counter advances by d ticks; an overflow sets sr.uif.
\* on_interrupt runs before the counter overflows again.
count(d) ==
    /\ timer.steps < MaxCounts
    /\ Overflows(d) => (~timer.uif /\ timer.ovf < MaxOverflows * PERIOD)
    /\ timer' = [timer EXCEPT !.cnt = (@ + d) % PERIOD,
                              !.uif = @ \/ Overflows(d),
                              !.steps = @ + 1]
    /\ nowcall' = [nowcall EXCEPT
                      !.split = @ \/ (nowcall.pc = "cnt" /\ Overflows(d))]
    /\ UNCHANGED <<framerVars, taskVars, daemonVars, tickVars, schedVars>>

\* `let ovf = if ...uif().bit_is_set() { 0x10000 } else { 0 };
\* cnt.wrapping_add(ovf).wrapping_add(self.ovf)`
NowTicks(cnt, uif, o) == cnt + (IF uif THEN PERIOD ELSE 0) + o

\* now(), first read: `let cnt = self.tim.cnt.read().cnt().bits() as u32;`
now_read_cnt ==
    /\ nowcall.pc = "idle"
    /\ nowcall' = [nowcall EXCEPT !.pc = "cnt", !.cnt = timer.cnt]
    /\ UNCHANGED timer
    /\ UNCHANGED <<framerVars, taskVars, daemonVars, tickVars, schedVars>>

\* now(), second read and result: `self.tim.sr.read().uif().bit_is_set()`
\* and `Self::Instant::from_ticks(...)`.
now_read_uif ==
    /\ nowcall.pc = "cnt"
    /\ nowcall' = [nowcall EXCEPT
                      !.pc = "idle",
                      !.prev = nowcall.ret,
                      !.ret = NowTicks(nowcall.cnt, timer.uif, timer.ovf)]
    /\ UNCHANGED timer
    /\ UNCHANGED <<framerVars, taskVars, daemonVars, tickVars, schedVars>>

\* fn on_interrupt: `if uif { clear uif; self.ovf += 0x10000; }`
on_interrupt ==
    /\ nowcall.pc = "idle"
    /\ timer' = IF timer.uif
                THEN [timer EXCEPT !.uif = FALSE, !.ovf = @ + PERIOD]
                ELSE timer
    /\ UNCHANGED nowcall
    /\ UNCHANGED <<framerVars, taskVars, daemonVars, tickVars, schedVars>>

MonoNext ==
    \/ \E d \in CountSteps : count(d)
    \/ now_read_cnt
    \/ now_read_uif
    \/ on_interrupt

SpecMono == Init /\ [][MonoNext]_vars

(***************************************************************************)
(* main.rs: the tasks step by step under the scheduler                     *)
(*                                                                         *)
(* One core.  A pending task starts as soon as its priority is above the   *)
(* level the core runs at; a lock raises the level to the ceiling of its   *)
(* resources for the length of its closure and never waits.  Time is not   *)
(* counted: a delay is over whenever the timer says so, and the watchdog   *)
(* finds any elapsed time.                                                 *)
(***************************************************************************)

\* ---- bounds of the scheduler's environment --------------------------------
\* USB interrupts raised in one run.
MaxIrqs == 2
\* What handle_usb_event's read_packet gives on an interrupt: no frame yet,
\* an error of the link, or a frame: a snapshot of no or of full load, or
\* bytes that decode to no message.
SchedOutcomes ==
    {[kind |-> "none", buf |-> << >>], [kind |-> "err", buf |-> << >>]}
    \cup {[kind |-> "frame", buf |-> f] :
             f \in {ToAllocvecCobs(m) : m \in QueueMsgs} \cup {BadFrame}}
\* The elapsed times no_data_timeout finds.
SchedElapsed == {0, Millis(NO_DATA_MS), Millis(BLANK_SCREEN_MS)}

\* Task t is the one the core executes: it is the last that started and no
\* pending task preempts it.
Running(t) ==
    /\ ~halted
    /\ stack # << >>
    /\ stack[Len(stack)] = t
    /\ \A u \in ready : Priority(u) <= Level

\* Task t goes to position p.
Goto(t, p) == pc' = [pc EXCEPT ![t] = p]

\* Task t returns, or reaches an await, and is at position p.
Leave(t, p) ==
    /\ pc' = [pc EXCEPT ![t] = p]
    /\ stack' = SubSeq(stack, 1, Len(stack) - 1)

\* The USB controller raises USBCTRL_IRQ.
usb_irq ==
    /\ ~halted
    /\ irqs < MaxIrqs
    /\ pc["usb_event"] = "idle"
    /\ "usb_event" \notin ready
    /\ ready' = ready \cup {"usb_event"}
    /\ irqs' = irqs + 1
    /\ UNCHANGED <<pc, stack, hp>>
    /\ UNCHANGED <<framerVars, taskVars, daemonVars, tickVars, monoVars>>

\* The timer ends the delay task t awaits.
Wake(t) ==
    /\ ~halted
    /\ pc[t] = "await"
    /\ t \notin ready
    /\ ready' = ready \cup {t}
    /\ UNCHANGED <<pc, stack, hp, irqs>>
    /\ UNCHANGED <<framerVars, taskVars, daemonVars, tickVars, monoVars>>

\* The pending task t of the highest priority starts, or goes on after its
\* await, preempting what runs.
Dispatch(t) ==
    /\ ~halted
    /\ t \in ready
    /\ Priority(t) > Level
    /\ \A u \in ready : Priority(u) <= Priority(t)
    /\ ready' = ready \ {t}
    /\ stack' = Append(stack, t)
    /\ Goto(t, IF t = "handle_packet" THEN "decode" ELSE "lock")
    /\ UNCHANGED <<hp, irqs>>
    /\ UNCHANGED <<framerVars, taskVars, daemonVars, tickVars, monoVars>>

\* usb_event: (serial, pulse_led).lock(...), in it handle_usb_event, whose
\* read_packet gives o, and `*pulse_led = true`.
usb_event_step(o) ==
    /\ Running("usb_event")
    /\ CASE pc["usb_event"] = "lock" ->
              /\ Goto("usb_event", "cs")
              /\ UNCHANGED <<stack, ready, hpkt, halted>>
         [] pc["usb_event"] = "cs" ->
              /\ halted' = (o.kind = "err")
              /\ hpkt' = IF o.kind = "frame" THEN SpawnHandlePacket(hpkt, 0, o.buf)
                         ELSE hpkt
              /\ ready' = IF o.kind = "frame" /\ hpkt = None
                          THEN ready \cup {"handle_packet"} ELSE ready
              /\ IF o.kind = "err"
                 THEN UNCHANGED <<pc, stack>>
                 ELSE Leave("usb_event", "idle")
    /\ UNCHANGED <<hp, irqs>>
    /\ UNCHANGED <<now, msg_time, prev_perf, frames, display, hperf, wd, last_rx,
                   anim, poll, shown, rx, ho, play>>
    /\ UNCHANGED <<framerVars, daemonVars, tickVars, monoVars>>

\* handle_packet on the buf it was spawned with.
handle_packet_step(fault) ==
    /\ Running("handle_packet")
    /\ \E msg \in {FromBytesCobs(hpkt.val.buf)} :
       CASE pc["handle_packet"] = "decode" ->
              /\ halted' = (msg.tag = "Err" /\ fault)
              /\ IF msg.tag = "Err" /\ fault
                 THEN UNCHANGED pc
                 ELSE Goto("handle_packet",
                           IF msg.tag = "ShowPerf" THEN "lock" ELSE "ret")
              /\ UNCHANGED <<stack, ready, msg_time, hperf, hpkt>>
         [] pc["handle_packet"] = "lock" ->
              /\ Goto("handle_packet", "stamp")
              /\ UNCHANGED <<stack, ready, msg_time, hperf, hpkt, halted>>
         [] pc["handle_packet"] = "stamp" ->
              /\ msg_time' = StampMsgTime(msg, now, msg_time)
              /\ Goto("handle_packet", "spawn")
              /\ UNCHANGED <<stack, ready, hperf, hpkt, halted>>
         [] pc["handle_packet"] = "spawn" ->
              /\ hperf' = SpawnHandlePerf(hperf, msg.perf)
              /\ ready' = IF hperf = None THEN ready \cup {"handle_perf"} ELSE ready
              /\ Goto("handle_packet", "ret")
              /\ UNCHANGED <<stack, msg_time, hpkt, halted>>
         [] pc["handle_packet"] = "ret" ->
              /\ hpkt' = None
              /\ Leave("handle_packet", "idle")
              /\ UNCHANGED <<ready, msg_time, hperf, halted>>
    /\ UNCHANGED <<hp, irqs>>
    /\ UNCHANGED <<now, prev_perf, frames, display, wd, last_rx, anim, poll, shown,
                   rx, ho, play>>
    /\ UNCHANGED <<framerVars, daemonVars, tickVars, monoVars>>

\* handle_perf on the snapshot it was spawned with: under the lock on
\* prev_perf and frames it takes prev_perf, has update_state discard the
\* frames still queued and push the new ones, and stores the state returned.
handle_perf_step ==
    /\ Running("handle_perf")
    /\ CASE pc["handle_perf"] = "lock" ->
              /\ Goto("handle_perf", "take")
              /\ UNCHANGED <<stack, hp, prev_perf, frames, hperf>>
         [] pc["handle_perf"] = "take" ->
              /\ \E r \in {update_state([previous |-> prev_perf, current |-> hperf])} :
                     hp' = [hp EXCEPT !.prev = prev_perf, !.out = FramesOf(r),
                                      !.res = r.previous, !.i = 0]
              /\ prev_perf' = None
              /\ Goto("handle_perf", "clear")
              /\ UNCHANGED <<stack, frames, hperf>>
         [] pc["handle_perf"] = "clear" ->
              /\ frames' = DiscardStale(frames)
              /\ Goto("handle_perf", "push")
              /\ UNCHANGED <<stack, hp, prev_perf, hperf>>
         [] pc["handle_perf"] = "push" ->
              /\ frames' = PushBack(frames, hp.out[hp.i + 1])
              /\ hp' = [hp EXCEPT !.i = @ + 1]
              /\ Goto("handle_perf", IF hp.i + 1 < Len(hp.out) THEN "push" ELSE "store")
              /\ UNCHANGED <<stack, prev_perf, hperf>>
         [] pc["handle_perf"] = "store" ->
              /\ prev_perf' = hp.res
              /\ Goto("handle_perf", "ret")
              /\ UNCHANGED <<stack, hp, frames, hperf>>
         [] pc["handle_perf"] = "ret" ->
              /\ hperf' = None
              /\ hp' = [hp EXCEPT !.n = @ + 1]
              /\ Leave("handle_perf", "idle")
              /\ UNCHANGED <<prev_perf, frames>>
    /\ UNCHANGED <<ready, irqs>>
    /\ UNCHANGED <<now, msg_time, display, hpkt, halted, wd, last_rx, anim, poll,
                   shown, rx, ho, play>>
    /\ UNCHANGED <<framerVars, daemonVars, tickVars, monoVars>>

\* show_perf after its delay_until: under the lock on display and frames it
\* pops a frame and draws it, then awaits the next tick.
show_perf_step ==
    /\ Running("show_perf")
    /\ CASE pc["show_perf"] = "lock" ->
              /\ Goto("show_perf", "pop")
              /\ UNCHANGED <<stack, frames, shown, display>>
         [] pc["show_perf"] = "pop" ->
              /\ IF frames # << >>
                 THEN /\ frames' = PopFront(frames).rest
                      /\ shown' = Some(PopFront(frames).frame)
                      /\ display' = "perf"
                 ELSE UNCHANGED <<frames, shown, display>>
              /\ Leave("show_perf", "await")
    /\ UNCHANGED <<ready, hp, irqs>>
    /\ UNCHANGED <<now, msg_time, prev_perf, hpkt, hperf, halted, wd, last_rx, anim,
                   poll, rx, ho, play>>
    /\ UNCHANGED <<framerVars, daemonVars, tickVars, monoVars>>

\* no_data_timeout after its delay, finding the time elapsed since
\* msg_time: under the lock on msg_time it returns or, under the lock on
\* display inside it, draws the message or clears the display as
\* WatchdogStep tells, then awaits the next poll.
no_data_timeout_step(elapsed) ==
    /\ Running("no_data_timeout")
    /\ CASE pc["no_data_timeout"] = "lock" ->
              /\ Goto("no_data_timeout", "check")
              /\ UNCHANGED <<stack, wd, display>>
         [] pc["no_data_timeout"] = "check" ->
              /\ IF ToMillis(elapsed) < NO_DATA_MS
                 THEN /\ wd' = [wd EXCEPT !.state = WatchdogStep(wd.state, elapsed).state]
                      /\ Leave("no_data_timeout", "await")
                 ELSE /\ wd' = [wd EXCEPT !.elapsed = elapsed]
                      /\ Goto("no_data_timeout", "draw")
                      /\ UNCHANGED stack
              /\ UNCHANGED display
         [] pc["no_data_timeout"] = "draw" ->
              /\ \E r \in {WatchdogStep(wd.state, wd.elapsed)} :
                     /\ wd' = [wd EXCEPT !.state = r.state, !.elapsed = 0]
                     /\ display' = CASE r.effect = "draw" -> "message"
                                     [] r.effect = "clear" -> "clear"
                                     [] OTHER -> display
              /\ Leave("no_data_timeout", "await")
    /\ UNCHANGED <<ready, hp, irqs>>
    /\ UNCHANGED <<now, msg_time, prev_perf, frames, hpkt, hperf, halted, last_rx,
                   anim, poll, shown, rx, ho, play>>
    /\ UNCHANGED <<framerVars, daemonVars, tickVars, monoVars>>

\* pulse_led: under the lock on pulse_led it sets the LED, then awaits its
\* delay.
pulse_led_step ==
    /\ Running("pulse_led")
    /\ CASE pc["pulse_led"] = "lock" ->
              /\ Goto("pulse_led", "led")
              /\ UNCHANGED stack
         [] pc["pulse_led"] = "led" ->
              Leave("pulse_led", "await")
    /\ UNCHANGED <<ready, hp, irqs>>
    /\ UNCHANGED <<framerVars, taskVars, daemonVars, tickVars, monoVars>>

SchedNext ==
    \/ usb_irq
    \/ \E t \in {"show_perf", "no_data_timeout", "pulse_led"} : Wake(t)
    \/ \E t \in Tasks : Dispatch(t)
    \/ \E o \in SchedOutcomes : usb_event_step(o)
    \/ \E fault \in BOOLEAN : handle_packet_step(fault)
    \/ handle_perf_step
    \/ show_perf_step
    \/ \E elapsed \in SchedElapsed : no_data_timeout_step(elapsed)
    \/ pulse_led_step

SpecSched == Init /\ [][SchedNext]_vars

(***************************************************************************)
(* Claims about the packet framer                                          *)
(***************************************************************************)

\* The last call returned a frame.
Extracted == call.res = "ok" /\ call.n > 0

\* Serial.buf holds the cells below the cursor.
BufShape == Len(buf) = buf_next

\* The frames read_packet has returned are the first frames sent, in order
\* and byte for byte.
GotIsPrefixOfSent ==
    /\ Len(got) <= Len(sent)
    /\ \A k \in 1..Len(got) : got[k] = sent[k]

\* C1 (SpecLink): once every byte of a stream of N valid frames has been
\* read from the link by read_packet calls, one per link event, exactly the
\* N frames have been extracted, in order and byte for byte.
C1_AllFramesExtracted ==
    (/\ wire = << >>
     /\ \A k \in 1..Len(sent) : Len(sent[k]) <= BUF_BYTES)
    => got = sent

\* C2 (SpecLink): the cursor never exceeds BUF_BYTES, and a call made with
\* BUF_BYTES bytes buffered, no terminator among them and more bytes
\* pending on the link returns the overflow error.
C2_CursorBounded == buf_next <= BUF_BYTES /\ BufShape

C2_BoundedAndOverflowReported ==
    /\ C2_CursorBounded
    /\ (/\ call.res \notin {"none", "err"}
        /\ call.polled = 0
        /\ call.cursor = BUF_BYTES
        /\ FirstTerminator(call.pre, call.cursor) = -1
        /\ wire # << >>)
       => call.res = "overflow"

\* C3 (SpecFramer): a frame for which read_packet returned Overflow is
\* never returned by a later call.
C3_OverflowFrameNeverDelivered == \A k \in ovf : k > consumed

\* C4 (SpecFramer): when the first terminator is at offset i and the frame
\* of i + 1 bytes does not fit the output buffer, the call returns Overflow.
C4_TooLargeFrameIsOverflow ==
    (call.i >= 0 /\ call.i + 1 > call.outLen) => call.res = "overflow"

\* C5 (SpecFramer): a call that finds the first terminator at offset i and
\* whose frame fits returns i + 1, leaves payload and terminator in the
\* caller's buffer, moves the bytes formerly at [i + 1, cursor) to the head
\* of the receive buffer in order, and lowers the cursor by exactly i + 1.
C5_CopyAndCompact ==
    (call.res \notin {"none", "err"} /\ call.i >= 0 /\ call.i + 1 <= call.outLen)
    => /\ call.res = "ok"
       /\ call.n = call.i + 1
       /\ call.i = FirstTerminator(call.pre, call.cursor)
       /\ call.out = SubSeq(call.pre, 1, call.i + 1)
       /\ buf = SubSeq(call.pre, call.i + 2, call.cursor)
       /\ buf_next = call.cursor - (call.i + 1)
       /\ BufShape

\* A call returned a frame of several bytes and left trailing bytes, part
\* of the next frame, in the receive buffer.
C5_Witness ==
    /\ Extracted
    /\ call.i >= 1
    /\ buf_next > 0
    /\ call.cursor > call.i + 1

\* The parts of C6 that hold of the code: a call removes at most one
\* terminator from the buffer, the earliest, and the frames returned so far
\* are the first frames sent, in order.
C6_OneFramePerCall ==
    /\ GotIsPrefixOfSent
    /\ Extracted =>
          /\ call.i = FirstTerminator(call.pre, call.cursor)
          /\ Terminators(buf, buf_next) = Terminators(call.pre, call.cursor) - 1

\* C6 (SpecLink): each call extracts at most one frame, the one ending at
\* the earliest terminator, and a frame left buffered by an earlier call
\* is returned by re-invoking read_packet.
C6_BacklogReturnedOnReinvoke ==
    /\ C6_OneFramePerCall
    /\ (/\ call.res = "ok"
        /\ Terminators(call.pre, call.cursor - call.polled) > 0)
       => call.n > 0


(***************************************************************************)
(* Claims about the watchdog and the animation step                        *)
(***************************************************************************)

\* The step is the locked body of one no_data_timeout iteration.
PollStep == wd.pc = "sampled" /\ wd'.pc = "delay"

\* A poll has just ended, at the instant it sampled.
JustPolled ==
    /\ wd.pc = "delay"
    /\ wd.instant = now
    /\ wd.due = now + Millis(POLL_MS)

\* C7 (SpecWatchdog): after every poll whose elapsed time is defined the
\* watchdog is Normal if elapsed < 2000 ms, Stale if 2000 ms <= elapsed <
\* 30000 ms and Blanked if elapsed >= 30000 ms.
C7_StateFollowsElapsed ==
    [][(PollStep /\ wd.instant >= msg_time) =>
          wd'.state = (IF (wd.instant - msg_time) \div 1000 < 2000 THEN "None"
                       ELSE IF (wd.instant - msg_time) \div 1000 < 30000 THEN "NoData"
                       ELSE "ClearScreen")]_vars

\* A poll at exactly 2000 ms of silence has left the watchdog Stale.
C7_Witness ==
    /\ JustPolled
    /\ now - msg_time = 2000 * 1000
    /\ wd.state = "NoData"

\* Polls at 1999 ms and at exactly 30000 ms of silence have happened.
C7_Normal1999 == JustPolled /\ (now - msg_time) \div 1000 = 1999 /\ wd.state = "None"
C7_Blanked30000 ==
    JustPolled /\ now - msg_time = 30000 * 1000 /\ wd.state = "ClearScreen"

\* C8 (SpecWatchdog): over a run of consecutive polls with elapsed in
\* [2000, 30000) ms the message is drawn exactly once, over a run with
\* elapsed >= 30000 ms the display is cleared exactly once, and polls with
\* elapsed < 2000 ms neither draw nor clear.
C8_OneEffectPerRun ==
    /\ poll.kind = "stale" => poll.draws = 1
    /\ poll.kind = "blank" => poll.clears = 1
    /\ poll.kind = "normal" => (poll.draws = 0 /\ poll.clears = 0)

\* The third poll, at least, of a run of stale polls has ended.
C8_Witness ==
    /\ JustPolled
    /\ poll.kind = "stale"
    /\ poll.draws = 1
    /\ now - msg_time >= Millis(NO_DATA_MS) + 2 * Millis(POLL_MS)

\* The second poll, at least, of a run of blank polls has ended.
C8_BlankRun ==
    JustPolled /\ poll.kind = "blank" /\ now - msg_time >= Millis(BLANK_SCREEN_MS + POLL_MS)

\* C9 as claimed (SpecWatchdog): once a ShowPerf has been decoded with the
\* watchdog Stale or Blanked, the next poll, the first to run its locked
\* body after the decode, sets the watchdog Normal and leaves the display
\* alone.
C9_NextPollSetsNormal ==
    [][(/\ PollStep
        /\ wd.state \in {"NoData", "ClearScreen"}
        /\ last_rx >= wd.due - Millis(POLL_MS))
       => (wd'.state = "None" /\ display' = display)]_vars

\* C9 as amended (SpecWatchdog): msg_time is when the last ShowPerf was
\* decoded; a poll that finds the watchdog Stale or Blanked and has sampled
\* the clock at or after that decode, less than 2000 ms after it, sets the
\* watchdog Normal and leaves the display alone; a poll that sampled the
\* clock before the decode changes neither; and a poll that finds the
\* watchdog Normal after 2000 ms of silence draws the message.
C9_FreshMessageResets ==
    [][/\ msg_time' = last_rx'
       /\ (/\ PollStep
           /\ wd.state \in {"NoData", "ClearScreen"}
           /\ wd.instant >= last_rx
           /\ (wd.instant - last_rx) \div 1000 < 2000)
          => (wd'.state = "None" /\ display' = display)
       /\ (PollStep /\ wd.instant < last_rx)
          => (wd'.state = wd.state /\ display' = display)
       /\ (/\ PollStep
           /\ wd.state = "None"
           /\ wd.instant >= last_rx
           /\ (wd.instant - last_rx) \div 1000 >= 2000
           /\ (wd.instant - last_rx) \div 1000 < 30000)
          => (wd'.state = "NoData" /\ display' = "message" /\ poll'.draws = 1)]_vars

\* A poll has taken the watchdog from Blanked back to Normal after a
\* ShowPerf was decoded.
C9_Witness ==
    /\ JustPolled
    /\ poll.from = "ClearScreen"
    /\ wd.state = "None"
    /\ last_rx > 0
    /\ display = "clear"

\* A poll has taken the watchdog from Stale back to Normal, the message
\* still on the display.
C9_FromStale ==
    JustPolled /\ poll.from = "NoData" /\ wd.state = "None" /\ display = "message"

\* C10 (SpecAnim): the animation step with no previous state gives exactly
\* one frame to display, equal to the target in every field, and the target
\* is the new DisplayState.
C10_NoHistoryOneFrame ==
    (anim.target # None /\ anim.previous = None)
    => /\ anim.result.current = anim.target
       /\ anim.result.scheduled = << >>
       /\ FramesOf(anim.result) = <<anim.target.val>>
       /\ anim.result.previous = anim.target
       /\ prev_perf = anim.target

\* The first ShowPerf has been through handle_perf.
C10_Witness ==
    /\ anim.previous = None
    /\ anim.target # None
    /\ prev_perf = anim.target
    /\ hperf = None

\* The last update_state call had a previous state and a target.
AnimBlended == anim.previous # None /\ anim.target # None

\* The values of load field f over the last update: the previous state's,
\* then those of the frames generated, in order.
AnimValues(f) ==
    <<anim.previous.val[f]>>
        \o [k \in 1..Len(anim.result.scheduled) |-> anim.result.scheduled[k].perf[f]]

\* The load fields the animation step eases.
EasedFields == {"peak_core_load", "all_cores_load"}

\* C11 (SpecAnim): when the target's peak_core_load (or all_cores_load) is
\* above the previous state's, the first of the FRAMES_PER_SECOND frames
\* generated has the target's value in that field, and so has every later
\* frame of the update.
C11_RiseIsImmediate ==
    AnimBlended =>
        /\ Len(anim.result.scheduled) = FRAMES_PER_SECOND
        /\ \A f \in EasedFields :
               anim.target.val[f] > anim.previous.val[f]
               => \A k \in 1..FRAMES_PER_SECOND :
                      anim.result.scheduled[k].perf[f] = anim.target.val[f]

\* An update has raised peak_core_load from 0.0 to 1.0 while all_cores_load
\* was falling.
C11_Witness ==
    /\ AnimBlended
    /\ anim.previous.val.peak_core_load = 0
    /\ anim.target.val.peak_core_load = LoadScale
    /\ anim.target.val.all_cores_load < anim.previous.val.all_cores_load
    /\ anim.result.scheduled[1].perf.peak_core_load = LoadScale

\* C12 as claimed (SpecAnim): when the target's peak_core_load (or
\* all_cores_load) is below the previous state's, the values of the frames
\* generated never increase, each is lower than the one before it (the
\* first: than the previous state's) by at most FALL_FRAC_PER_FRAME, and
\* none is below the target's value.
C12_BoundedFall ==
    AnimBlended =>
        \A f \in EasedFields :
            anim.target.val[f] < anim.previous.val[f]
            => \A k \in 1..FRAMES_PER_SECOND :
                   /\ AnimValues(f)[k + 1] <= AnimValues(f)[k]
                   /\ AnimValues(f)[k] - AnimValues(f)[k + 1] <= FALL_FRAC_PER_FRAME
                   /\ AnimValues(f)[k + 1] >= anim.target.val[f]

\* 2^-25: half the spacing of f32 just below 1.0, the largest rounding
\* error of an f32 subtraction whose result is below 1.0.
HalfUlpBelowOne == LoadScale \div 33554432

\* C12 as amended (SpecAnim): for loads in [0, 1], the same with the step
\* bounded by FALL_FRAC_PER_FRAME plus the rounding of one f32
\* subtraction, at most 2^-25.
C12_BoundedFallRounded ==
    AnimBlended =>
        \A f \in EasedFields :
            anim.target.val[f] < anim.previous.val[f]
            => \A k \in 1..FRAMES_PER_SECOND :
                   /\ AnimValues(f)[k + 1] <= AnimValues(f)[k]
                   /\ AnimValues(f)[k] - AnimValues(f)[k + 1]
                          <= FALL_FRAC_PER_FRAME + HalfUlpBelowOne
                   /\ AnimValues(f)[k + 1] >= anim.target.val[f]

\* An update has let peak_core_load fall from 1.0 towards 0.0 by
\* FRAMES_PER_SECOND steps, none of them reaching the target, and one of
\* them larger than FALL_FRAC_PER_FRAME.
C12_Witness ==
    /\ AnimBlended
    /\ anim.target.val.peak_core_load = 0
    /\ anim.previous.val.peak_core_load > LoadScale \div 4
    /\ AnimValues("peak_core_load")[FRAMES_PER_SECOND + 1] > 0
    /\ \E k \in 1..FRAMES_PER_SECOND :
           AnimValues("peak_core_load")[k] - AnimValues("peak_core_load")[k + 1]
               > FALL_FRAC_PER_FRAME

\* A fall has reached its target part of the way through the update and
\* stayed on it.
C12_Clamped ==
    /\ AnimBlended
    /\ anim.target.val.all_cores_load < anim.previous.val.all_cores_load
    /\ AnimValues("all_cores_load")[2] > anim.target.val.all_cores_load
    /\ AnimValues("all_cores_load")[FRAMES_PER_SECOND + 1] = anim.target.val.all_cores_load

\* s is what is left of t after some of its first elements were taken.
IsSuffix(s, t) ==
    /\ Len(s) <= Len(t)
    /\ s = SubSeq(t, Len(t) - Len(s) + 1, Len(t))

C14_KeepsLastFrame ==
    AnimBlended =>
        /\ Len(anim.result.scheduled) = FRAMES_PER_SECOND
        /\ prev_perf = Some(anim.result.scheduled[FRAMES_PER_SECOND].perf)
        /\ \A f \in EasedFields :
               /\ prev_perf.val[f] = AnimValues(f)[FRAMES_PER_SECOND + 1]
               /\ anim.previous.val[f] - anim.target.val[f]
                      > FRAMES_PER_SECOND * (FALL_FRAC_PER_FRAME + HalfUlpBelowOne)
                  => prev_perf.val[f] > anim.target.val[f]

\* An update has left a DisplayState that differs from its target: the fall
\* of peak_core_load from 1.0 towards 0.0 is under way.
C14_Witness ==
    /\ AnimBlended
    /\ hperf = None
    /\ anim.target.val.peak_core_load = 0
    /\ prev_perf # anim.target
    /\ prev_perf.val.peak_core_load > LoadScale \div 2
    /\ prev_perf.val.daytime = anim.target.val.daytime

(***************************************************************************)
(* Claims about the hand-off between the tasks                             *)
(***************************************************************************)

\* C15 (SpecAnim): whenever handle_packet has decoded a ShowPerf, msg_time
\* is the time of that decode and the snapshot has been accepted by
\* handle_perf::spawn, so that handle_perf runs on it.
C15_StampedSnapshotIsAnimated ==
    rx.tag = "ShowPerf" => (msg_time = last_rx /\ rx.handed)

\* The step is handle_packet on a frame that fails to decode, the frame
\* before having decoded.
DecodeFailureStep == rx.tag # "Err" /\ rx'.tag = "Err"

\* C16 (SpecAnim): a frame that fails to decode changes none of msg_time,
\* prev_perf and the frame queue and does not stop the firmware, so that
\* the frames after it are still processed.
C16_DecodeFailureNonFatal ==
    [][DecodeFailureStep =>
          /\ msg_time' = msg_time
          /\ prev_perf' = prev_perf
          /\ frames' = frames
          /\ hperf' = hperf
          /\ ~halted']_vars

\* The step is usb_event extracting a frame while the handle_packet spawned
\* before it has not finished.
ExtractWhileBusy == got' # got /\ hpkt # None

\* C17 (SpecE2E): when usb_event extracts a frame while handle_packet is
\* still pending, the pending task keeps its own frame, the new frame is
\* out of the receive buffer and is dropped, usb_event completes, and no
\* dropped frame is ever decoded.
C17_BusyDecoderDropsFrame ==
    [][/\ ExtractWhileBusy =>
             /\ hpkt' = hpkt
             /\ ho'.dropped = ho.dropped \cup {Len(got')}
             /\ consumed' = consumed + 1
             /\ Terminators(buf', buf_next') = Terminators(call'.pre, call'.cursor) - 1
             /\ ~halted'
       /\ \A k \in ho'.dropped : \A j \in 1..Len(ho'.decoded) : ho'.decoded[j] # k]_vars

\* The second frame was dropped while the first was pending, the first has
\* been decoded since, and nothing is left on the link or in the buffer.
C17_Witness ==
    /\ ho.dropped = {2}
    /\ ho.decoded = <<1>>
    /\ hpkt = None
    /\ wire = << >>
    /\ buf_next = 0
    /\ ~halted

\* The host has sent one frame, a ShowPerf, and the link, the framer and
\* the tasks handle_packet and handle_perf have finished with it.
OneShowPerfProcessed ==
    /\ Len(sent) = 1
    /\ FromBytesCobs(sent[1]).tag = "ShowPerf"
    /\ wire = << >>
    /\ buf_next = 0
    /\ hpkt = None
    /\ hperf = None

\* C18 (SpecE2E): from the initial state, once the one ShowPerf frame sent
\* has been processed, it has been extracted and decoded, msg_time is the
\* time of the decode, DisplayState is the snapshot, and exactly one frame
\* equal to the snapshot is queued or, after a tick of the display task,
\* has been rendered.
C18_OneFrameEndToEnd ==
    OneShowPerfProcessed =>
        /\ got = sent
        /\ ho.decoded = <<1>>
        /\ msg_time = last_rx
        /\ prev_perf = Some(FromBytesCobs(sent[1]).perf)
        /\ \/ frames = <<FromBytesCobs(sent[1]).perf>> /\ shown = None
           \/ /\ frames = << >>
              /\ shown = Some(FromBytesCobs(sent[1]).perf)
              /\ display = "perf"

\* A ShowPerf of full load, the only frame sent, was decoded after time had
\* passed and has been rendered.
C18_Witness ==
    /\ OneShowPerfProcessed
    /\ msg_time > 0
    /\ msg_time = last_rx
    /\ shown # None
    /\ shown.val.peak_core_load = LoadScale
    /\ frames = << >>
    /\ display = "perf"

\* The same frame is queued and not rendered yet.
C18_Queued ==
    OneShowPerfProcessed /\ Len(frames) = 1 /\ shown = None /\ msg_time > 0

\* C20: a read_packet call whose poll brought zero new bytes (the link was
\* idle, would block, or returned Ok(0)) returns Ok(0) and leaves Serial.buf
\* and Serial.buf_next as they were, also when a terminator is buffered.
C20_ZeroBytesReturnsAtOnce ==
    (call.res \notin {"none", "err"} /\ call.polled = 0)
        => /\ call.res = "ok"
           /\ call.n = 0
           /\ call.out = << >>
           /\ buf = call.pre
           /\ buf_next = call.cursor

\* A call that read zero new bytes while a complete frame was buffered.
C20_Witness ==
    /\ call.res = "ok"
    /\ call.polled = 0
    /\ Terminators(call.pre, call.cursor) > 0
    /\ buf = call.pre

(***************************************************************************)
(* Claims about the Averager                                               *)
(***************************************************************************)

RECURSIVE SumSeq(_)
SumSeq(s) == IF s = << >> THEN 0 ELSE Head(s) + SumSeq(Tail(s))

\* The arithmetic mean of the samples added.
MeanOfSamples == Rat(SumSeq(samples), Len(samples))

C19_AtMaxSamples ==
    /\ Len(samples) = averager.max_samples
    /\ averager.max_samples = 3
    /\ average(averager) = Some(MeanOfSamples)
    /\ MeanOfSamples.d = 3

(***************************************************************************)
(* Claims about the message variants, the display task and the schedule    *)
(***************************************************************************)

\* handle_packet finishes on a frame that decodes to ClearScreen.
ClearScreenStep ==
    /\ hpkt # None
    /\ hpkt' = None
    /\ FromBytesCobs(hpkt.val.buf) = ClearScreen

\* C21: a decoded ClearScreen changes none of msg_time, prev_perf, the frame
\* queue, the watchdog's state and the display, does not spawn handle_perf
\* and does not stop the core.
C21_ClearScreenInert ==
    [][ClearScreenStep
           => /\ UNCHANGED <<msg_time, prev_perf, frames, wd, display, hperf, shown>>
              /\ ~halted']_vars

\* A ClearScreen was the last frame decoded, later than the ShowPerf whose
\* frame is still queued.
C21_Witness ==
    /\ ho.decoded # << >>
    /\ FromBytesCobs(got[ho.decoded[Len(ho.decoded)]]) = ClearScreen
    /\ hpkt = None
    /\ prev_perf # None
    /\ frames # << >>
    /\ now > msg_time

\* The last update had a previous state to animate from.
BlendedUpdate == anim.previous # None /\ anim.target # None

C22_UpdateOnTick ==
    /\ BlendedUpdate
    /\ play.k = 1
    /\ play.at = play.upd

\* The frames the last update enqueued, in order.
Enqueued == FramesOf(anim.result)

\* show_perf has completed an iteration.
DisplayTick == sp' # sp

\* C24: each tick of show_perf removes the frame at the front of the queue,
\* and no other, and renders it, so that the frames rendered since the last
\* update are a prefix of the frames it enqueued and the queue holds the
\* rest in order; a tick that finds the queue empty draws nothing and
\* leaves the display as it is.
C24_DisplayTaskIsFifo ==
    /\ [](/\ frames = SubSeq(Enqueued, play.k + 1, Len(Enqueued))
          /\ play.k >= 1 => shown = Some(Enqueued[play.k]))
    /\ [][DisplayTick
             => IF frames = << >>
                THEN UNCHANGED <<frames, shown, display>>
                ELSE /\ frames' = Tail(frames)
                     /\ shown' = Some(Head(frames))
                     /\ display' = "perf"]_vars

\* Three frames of a falling animation have been rendered, the third
\* different from the first, after a tick on an empty queue.
C24_Witness ==
    /\ BlendedUpdate
    /\ play.k = 3
    /\ shown = Some(Enqueued[3])
    /\ Enqueued[3] # Enqueued[1]
    /\ play.upd > Millis(SEND_PERIOD_MS)

\* A tick has passed on an empty queue and left the display cleared.
C24_EmptyTick ==
    /\ sp.instant > Millis(FRAME_MS)
    /\ frames = << >>
    /\ shown = None
    /\ display = "clear"

\* C25: the frames read_packet hands over are the frames of the link in the
\* order their terminators arrived, and handle_packet decodes those it gets
\* in that order, whenever usb_event runs between its spawn and its end.
C25_DecodedInArrivalOrder ==
    /\ Len(got) <= Len(sent)
    /\ \A k \in 1..Len(got) : got[k] = sent[k]
    /\ \A i, j \in 1..Len(ho.decoded) : i < j => ho.decoded[i] < ho.decoded[j]

\* Two different frames have been decoded, neither dropped, the second
\* without a stamp of its own time.
C25_Witness ==
    /\ Len(ho.decoded) = 2
    /\ got[ho.decoded[1]] # got[ho.decoded[2]]
    /\ msg_time < now
    /\ ho.dropped = {}

(***************************************************************************)
(* Claims about the tasks under the scheduler                              *)
(***************************************************************************)

\* handle_perf is inside its lock on prev_perf and frames.
InUpdate == pc["handle_perf"] \in {"take", "clear", "push", "store"}

\* C26: an update is one step for the display task and for the next update:
\* show_perf is never inside its lock while handle_perf is inside its own,
\* and outside handle_perf's lock the queue holds frames of one update only,
\* a tail of the frames it pushed, in order, and prev_perf is the state that
\* update returned.
C26_UpdateIsAtomic ==
    /\ pc["show_perf"] = "pop" => ~InUpdate
    /\ ~InUpdate
           => /\ \E k \in 0..Len(hp.out) : frames = SubSeq(hp.out, k + 1, Len(hp.out))
              /\ prev_perf = hp.res

\* handle_perf has pushed a part of the frames of the second update and is
\* preempted, while show_perf, woken by the timer, is kept from starting.
C26_Witness ==
    /\ pc["handle_perf"] = "push"
    /\ hp.i \in 1..(FRAMES_PER_SECOND - 1)
    /\ Len(hp.out) = FRAMES_PER_SECOND
    /\ "show_perf" \in ready
    /\ Len(stack) > 1

\* show_perf, inside its lock, finds all the frames of a second update.
C26_WholeUpdateSeen ==
    /\ pc["show_perf"] = "pop"
    /\ hp.n = 2
    /\ frames = hp.out
    /\ Len(frames) = FRAMES_PER_SECOND

\* C27 as stated: no state is a deadlock, a task that has started can
\* always go on or be preempted by one that can, so that every critical
\* section entered is left again.
C27_NoDeadlock ==
    \A t \in Tasks :
        (\E i \in 1..Len(stack) : stack[i] = t)
            => /\ ~halted
               /\ \E u \in Tasks : \/ Running(u)
                                  \/ (u \in ready /\ Priority(u) > Level)

\* C28: no two tasks are inside critical sections on the same resource; in
\* particular handle_perf and show_perf are never both inside their locks
\* on frames, nor no_data_timeout and show_perf both inside theirs on
\* display.
C28_MutualExclusion ==
    /\ \A r \in Resources : Cardinality({t \in Tasks : r \in Held(t)}) <= 1
    /\ ~(InUpdate /\ pc["show_perf"] = "pop")
    /\ ~(pc["no_data_timeout"] = "draw" /\ pc["show_perf"] = "pop")

\* show_perf is inside its lock, handle_packet has preempted it and spawned
\* handle_perf, which is pending and does not start; no_data_timeout, woken
\* by the timer, does not start either.
C28_Witness ==
    /\ pc["show_perf"] = "pop"
    /\ stack = <<"show_perf">>
    /\ "handle_perf" \in ready
    /\ "no_data_timeout" \in ready

\* no_data_timeout holds msg_time and display while usb_event, which has
\* preempted it, holds serial and pulse_led.
C28_NestedLocks ==
    /\ pc["no_data_timeout"] = "draw"
    /\ pc["usb_event"] = "cs"
    /\ "handle_packet" \in ready

\* C29: prev_perf is None until handle_perf processes the first snapshot,
\* and Some in every state outside handle_perf's lock from then on,
\* whatever the watchdog does.
C29_PrevPerfLifecycle ==
    /\ (hp.n = 0 /\ pc["handle_perf"] \in {"idle", "lock", "take"}) => prev_perf = None
    /\ ((hp.n > 0 \/ pc["handle_perf"] = "ret") /\ ~InUpdate) => prev_perf # None

\* Two snapshots have been processed and the watchdog has blanked the
\* display after them.
C29_Witness ==
    /\ hp.n = 2
    /\ prev_perf # None
    /\ wd.state = "ClearScreen"
    /\ display = "clear"
    /\ shown # None

\* Inside handle_perf's lock for the second snapshot prev_perf is taken.
C29_TakenInside ==
    /\ hp.n = 1
    /\ pc["handle_perf"] = "push"
    /\ prev_perf = None

(***************************************************************************)
(* Claims about the link's errors                                          *)
(***************************************************************************)

\* The last call's port.read would have blocked.
WouldBlockCall == call.kind = "wouldblock"

\* The last call's port.read returned a UsbError other than WouldBlock.
LinkErrorCall == call.kind = "error"

\* C30 (SpecE2E): a read_packet call whose port.read gives WouldBlock
\* returns Ok(0) as a read of zero bytes does and leaves the receive buffer
\* and its cursor as they were, and usb_event carries on (it spawns nothing
\* and does not stop); a call whose port.read gives any other error returns
\* that error, leaves the receive buffer and its cursor as they were, and
\* stops the firmware in usb_event (the unwrap panics).
C30_LinkReadErrors ==
    /\ [](/\ WouldBlockCall
              => /\ call.res = "ok"
                 /\ call.n = 0
                 /\ call.polled = 0
                 /\ buf = call.pre
                 /\ buf_next = call.cursor
          /\ LinkErrorCall
              => /\ call.res = "err"
                 /\ call.n = 0
                 /\ buf = call.pre
                 /\ buf_next = call.cursor
                 /\ halted)
    /\ [][(call' # call /\ (WouldBlockCall \/ LinkErrorCall)')
             => /\ buf' = buf
                /\ buf_next' = buf_next
                /\ wire' = wire
                /\ got' = got
                /\ hpkt' = hpkt
                /\ halted' = LinkErrorCall']_vars

\* The link failed while part of a frame was buffered: the bytes are still
\* there and the firmware has stopped.
C30_Witness ==
    /\ LinkErrorCall
    /\ call.res = "err"
    /\ buf_next > 0
    /\ halted

\* The link would have blocked while part of a frame was buffered: the
\* bytes are still there and the firmware runs.
C30_WouldBlock ==
    /\ WouldBlockCall
    /\ call.res = "ok"
    /\ buf_next > 0
    /\ ~halted

(***************************************************************************)
(* Claims about the framer's recovery                                      *)
(***************************************************************************)

\* The receive buffer is full and holds no terminator: port.read is handed
\* the empty slice buf[BUF_BYTES..], poll reads nothing and read_packet
\* returns Ok(0) before it scans.
Wedged == buf_next = BUF_BYTES /\ FirstTerminator(buf, buf_next) = -1

\* From a wedged receive buffer no step changes the buffer or delivers a
\* frame, whatever the host sends and whatever the link does afterwards.
WedgedForGood ==
    [][Wedged => (Wedged' /\ buf' = buf /\ got' = got)]_vars

\* A terminator is pending on the link behind a wedged receive buffer, and
\* a read_packet call made in that state has returned Ok(0).
WedgedWithTerminatorPending ==
    /\ Wedged
    /\ \E j \in 1..Len(wire) : wire[j] = TERMINATOR
    /\ call.cursor = BUF_BYTES
    /\ call.res = "ok"
    /\ call.n = 0

\* C31 (SpecLink): the framer never reaches a state from which no frame
\* can be delivered again; from every receive-buffer state, 64 buffered
\* bytes without a terminator included, a terminator that the link delivers
\* later lets a later read_packet call return a frame.  Stated as: the
\* receive buffer is never full without a terminator, the state that
\* WedgedForGood shows to be final.
C31_FramerAlwaysRecovers == ~Wedged

(***************************************************************************)
(* Claims about the watchdog and the decode task                           *)
(***************************************************************************)

\* The poll that ends with this step neither draws nor clears.
NoDisplayEffect ==
    /\ display' = display
    /\ poll'.draws = 0
    /\ poll'.clears = 0

\* C32 (SpecWatchdog): a poll of the watchdog that finds msg_time later than
\* the instant it sampled (handle_packet ran between the sample and the
\* lock) has no effect on the display and leaves the watchdog's state as it
\* was; and a poll that takes the lock less than 2000 ms after msg_time was
\* stamped neither draws the message nor clears the display, however the
\* sample, the stamp and the lock are interleaved.
C32_RacedPollIsInert ==
    [][PollStep =>
          /\ (msg_time > wd.instant)
                => (wd'.state = wd.state /\ NoDisplayEffect)
          /\ (now - msg_time < Millis(NO_DATA_MS))
                => (wd'.state \in {wd.state, "None"} /\ NoDisplayEffect)]_vars

\* A Stale watchdog sampled the clock, a ShowPerf was stamped one tick
\* later, and the poll has left the watchdog Stale and the message on the
\* display.
C32_Witness ==
    /\ wd.pc = "delay"
    /\ poll.kind = "skipped"
    /\ poll.from = "NoData"
    /\ wd.state = "NoData"
    /\ display = "message"
    /\ msg_time > wd.instant
    /\ msg_time = last_rx

\* A Stale watchdog sampled the clock, was held up for a tick, and took
\* the lock on a msg_time stamped before the sample: the poll has set it
\* Normal.
C32_StampBeforeSample ==
    /\ wd.pc = "delay"
    /\ poll.kind = "normal"
    /\ poll.from = "NoData"
    /\ wd.state = "None"
    /\ now > wd.instant
    /\ msg_time <= wd.instant

\* No ShowPerf has been decoded since init.
NoShowPerfYet == prev_perf = None /\ hperf = None

\* C33 (SpecWatchdog): while no ShowPerf has been decoded, msg_time is the
\* instant of init (0 on the model's clock), so that a poll that samples
\* the clock less than 2000 ms after init leaves the display clear, the
\* first poll at or after 2000 ms draws the message and the polls up to
\* 30000 ms draw nothing more, the first poll at or after 30000 ms clears
\* the display and the later ones do nothing: the watchdog stays Blanked.
C33_SilentSinceInit ==
    [][(PollStep /\ NoShowPerfYet) =>
          /\ ToMillis(wd.instant) < NO_DATA_MS
                => /\ wd'.state = "None"
                   /\ display' = "clear"
                   /\ poll'.draws = 0
                   /\ poll'.clears = 0
          /\ (ToMillis(wd.instant) >= NO_DATA_MS
               /\ ToMillis(wd.instant) < BLANK_SCREEN_MS)
                => /\ wd'.state = "NoData"
                   /\ display' = "message"
                   /\ poll'.draws = 1
                   /\ poll'.clears = 0
                   /\ (display' # display) = (wd.state = "None")
          /\ ToMillis(wd.instant) >= BLANK_SCREEN_MS
                => /\ wd'.state = "ClearScreen"
                   /\ display' = "clear"
                   /\ poll'.draws = 0
                   /\ poll'.clears = 1
                   /\ (display' # display) = (wd.state = "NoData")]_vars

\* With no ShowPerf decoded, the third poll or a later one after 30000 ms
\* has ended with the watchdog Blanked and the display cleared once.
C33_Witness ==
    /\ NoShowPerfYet
    /\ wd.pc = "delay"
    /\ wd.instant >= Millis(BLANK_SCREEN_MS) + 2 * Millis(POLL_MS)
    /\ wd.state = "ClearScreen"
    /\ poll.kind = "blank"
    /\ poll.clears = 1
    /\ display = "clear"

\* With no ShowPerf decoded, the poll at 2000 ms has drawn the message.
C33_DrawnAt2000 ==
    /\ NoShowPerfYet
    /\ wd.pc = "delay"
    /\ wd.instant = Millis(NO_DATA_MS)
    /\ poll.from = "None"
    /\ wd.state = "NoData"
    /\ display = "message"

(***************************************************************************)
(* Claims about the watchdog and the display task                          *)
(***************************************************************************)

\* The watchdog has drawn the message or cleared the display since the
\* last update.
Warned == play.warned # -1

\* C34 (SpecSilence): when the watchdog draws the message or clears the
\* display, no frame is pending in the queue; from then on the display
\* shows the message or is clear, and no frame is pending, until
\* handle_perf runs on a ShowPerf decoded after the watchdog acted, so that
\* the next frame show_perf renders comes from that snapshot.
C34_WarningStaysUntilNewData ==
    /\ [](Warned => (frames = << >> /\ display \in {"message", "clear"}))
    /\ [][/\ (PollStep /\ wd'.state \in {"NoData", "ClearScreen"} \ {wd.state})
                 => (frames = << >> /\ play'.warned = now)
          /\ (Warned /\ ~Warned')
                 => (hperf # None /\ last_rx >= play.warned /\ frames' # << >>)
          /\ (display \in {"message", "clear"} /\ display' = "perf")
                 => (~Warned /\ play.upd >= last_rx /\ play.k = 0)]_vars

\* The watchdog has drawn the message after the frames of a blended update
\* were all rendered, and the message is on the display.
C34_Witness ==
    /\ Warned
    /\ wd.state = "NoData"
    /\ display = "message"
    /\ anim.previous # None
    /\ Len(FramesOf(anim.result)) = FRAMES_PER_SECOND
    /\ play.k = FRAMES_PER_SECOND
    /\ frames = << >>

\* The watchdog has cleared the display, a new snapshot has come and its
\* first frame is on the display.
C34_NewDataAfterBlank ==
    /\ ~Warned
    /\ wd.state = "ClearScreen"
    /\ display = "perf"
    /\ play.k = 1
    /\ last_rx > Millis(BLANK_SCREEN_MS)

(***************************************************************************)
(* Claims about the convergence of the animation                           *)
(***************************************************************************)

\* Updates after which a load has fallen from 1.0 to any target: the
\* 100 / FALL_PCT_PER_SECOND seconds of a fall by 100 points, and one more
\* for the rounding of the steps.
SettleUpdates == (100 \div FALL_PCT_PER_SECOND) + 1

\* DisplayState after n updates in a row that carry the same target:
\* handle_perf stores what update_state returns as previous.
RECURSIVE Settle(_, _, _)
Settle(prev, target, n) ==
    IF n = 0 THEN prev
    ELSE Settle(Blended(prev, target).previous.val, target, n - 1)

\* The snapshots the host may send.
AnimTargets == {m.perf : m \in {a \in AnimMsgs : a.tag = "ShowPerf"}}

\* v lies between a and b, inclusive.
Between(v, a, b) == (a <= v /\ v <= b) \/ (b <= v /\ v <= a)

\* C35 (SpecAnim): from every DisplayState, SettleUpdates updates that
\* carry the same target leave all_cores_load and peak_core_load at the
\* target's values exactly, and a further update with that target renders
\* the target's values in every frame and leaves them; and in every update
\* each frame's value lies between the target's and the value of the
\* frame before it (the first: of the basis, the previous DisplayState).
C35_AnimationConverges ==
    /\ AnimBlended =>
           \A f \in EasedFields : \A k \in 1..FRAMES_PER_SECOND :
               Between(AnimValues(f)[k + 1], anim.target.val[f], AnimValues(f)[k])
    /\ prev_perf # None =>
           \A t \in AnimTargets :
               \E s \in {Settle(prev_perf.val, t, SettleUpdates)} :
               \E r \in {Blended(s, t)} :
                   \A f \in EasedFields :
                       /\ s[f] = t[f]
                       /\ r.previous.val[f] = t[f]
                       /\ \A k \in 1..FRAMES_PER_SECOND :
                              r.scheduled[k].perf[f] = t[f]

\* The last update of a fall of peak_core_load to 0.0: it began above the
\* target, within FRAMES_PER_SECOND steps of it, and has left DisplayState
\* at the target.
C35_Witness ==
    /\ AnimBlended
    /\ hperf = None
    /\ anim.target.val.peak_core_load = 0
    /\ anim.previous.val.peak_core_load > 0
    /\ anim.previous.val.peak_core_load < LoadScale \div 4
    /\ prev_perf.val.peak_core_load = 0

\* An update that began at the target has rendered the target in every
\* frame.
C35_Settled ==
    /\ AnimBlended
    /\ hperf = None
    /\ anim.previous.val.all_cores_load = LoadScale \div 2
    /\ anim.target.val.all_cores_load = LoadScale \div 2
    /\ prev_perf.val.all_cores_load = LoadScale \div 2

\* A DisplayState from which the fall to 0.0 takes all of SettleUpdates
\* updates: one fewer leaves it above the target.
C35_SlowestFall ==
    /\ prev_perf # None
    /\ \E t \in AnimTargets :
           /\ t.peak_core_load = 0
           /\ Settle(prev_perf.val, t, SettleUpdates - 1).peak_core_load > 0

(***************************************************************************)
(* Claims about the service loop                                           *)
(***************************************************************************)

\* detectsend_loop has returned Ok(()) and the outer loop has broken.
ServiceDone == svc.pc = "done"

\* C36 (SpecService): once stop() has set the run mode to Stop, the
\* service loop terminates in every execution, also when the port is not
\* detected or not opened and when a write fails.
C36_StopTerminates == (svc.run_mode = "Stop") ~> ServiceDone

\* The service loop ends only on Stop, after a pass of the loop that
\* wrote a snapshot.
ServiceDoneOnlyOnStop ==
    ServiceDone => (svc.run_mode = "Stop" /\ samples # << >>)

\* stop() was called and the service thread is in the sleep of the outer
\* loop after an error, about to call detectsend_loop again.
StoppedAndRetrying == svc.run_mode = "Stop" /\ svc.pc = "retry"

(***************************************************************************)
(* Claims about MonoTimer                                                  *)
(***************************************************************************)

\* Two calls of now() have returned.
TwoCalls == nowcall.prev # -1

\* C37 (SpecMono): a call of now() never returns less than the call before
\* it, wherever an overflow of the counter falls: before the call, after
\* it, between its read of cnt and its read of UIF, before or after
\* on_interrupt.
C37_NowIsMonotonic == TwoCalls => nowcall.ret >= nowcall.prev

\* The same for the runs in which the counter does not overflow between
\* the read of cnt and the read of UIF of a call.
NowIsMonotonicUnlessSplit ==
    (TwoCalls /\ ~nowcall.split) => nowcall.ret >= nowcall.prev

\* A call made before an overflow and one made after it, on_interrupt not
\* run yet, have returned increasing values.
OverflowCompensated ==
    /\ TwoCalls
    /\ ~nowcall.split
    /\ timer.uif
    /\ nowcall.prev < PERIOD
    /\ nowcall.ret >= PERIOD

\* The counter overflowed between the two reads of a call, and the call
\* returned a period too much.
SplitCall ==
    /\ nowcall.split
    /\ nowcall.pc = "idle"
    /\ nowcall.ret = ARR + PERIOD
    /\ timer.cnt = 0
    /\ timer.uif

====
